---- MODULE Spec2Model ----
(***************************************************************************)
(* Model of the self-tracking bot in src/main.py: the SQLite store, the    *)
(* per-user in-memory FSM sessions of the conversation handlers, and the   *)
(* notification scheduler.                                                 *)
(*                                                                         *)
(* Conventions.                                                            *)
(*  - A calendar date ("%Y-%m-%d") is a day number; the wall clock `now`   *)
(*    counts minutes of UTC since day 0, 00:00.                            *)
(*  - A text such as a reminder time is a tuple of one-character strings,  *)
(*    so that parsing and string comparison are computed, not assumed.     *)
(*  - SQL NULL and Python None are the string "NULL".                      *)
(*  - A handler whose antiflood check fails returns at once and changes    *)
(*    nothing: that run is a stuttering step.                              *)
(***************************************************************************)
EXTENDS Integers, Sequences, FiniteSets, Bags, TLC

VARIABLES
    users,              \* table users: user_id -> row
    user_addictions,    \* table user_addictions: set of <<user_id, code>>
    daily_logs,         \* table daily_logs: set of rows
    user_settings,      \* table user_settings: set of rows
    notifications_log,  \* table notifications_log: bag of rows
    notification_templates, \* table notification_templates: id -> row
    broadcast_log,      \* table broadcast_log: rows in the order of their ids
    environ,            \* os.environ when the module was imported
    conn,               \* Database.conn: the connection, or NULL once closed
    session,            \* MemoryStorage: user_id -> [state, data]
    now,                \* wall clock, minutes of UTC
    boot,               \* wall clock at process start
    tick,               \* the scheduler_tick coroutine: position and locals
    instances,          \* executions of the scheduler_tick job in flight
    delivered,          \* bag of the reminders the outbound channel accepted
    refused,            \* keys whose send ended in a permanent fault
    saving,             \* the report_support coroutine between two of its awaits
    txn,                \* the connection's open transaction, with the committed tables
    erased,             \* users whose data was deleted since the process started
    last,               \* the handler or step that ran last
    call                \* the last application of a pure helper

vars == <<users, user_addictions, daily_logs, user_settings, notifications_log,
          notification_templates, broadcast_log, environ, conn, session, now, boot, tick, instances, delivered, refused, saving, txn, erased, last,
          call>>

store == <<users, user_addictions, daily_logs, user_settings, notifications_log,
           notification_templates, broadcast_log>>

-----------------------------------------------------------------------------
(* Bounds of the model *)

\* minutes the clock may run after boot
MaxElapsed == 4
\* reminders the outbound channel accepts in one run
MaxDelivered == 2
\* rows of broadcast_log
MaxBroadcasts == 1

Users == {1, 2}
\* the users that press buttons; user 2 only owns rows
Callers == {1}
\* the two catalogue codes used, in catalogue order
CodeOrder == <<"alcohol", "nicotine">>
Codes == {CodeOrder[i] : i \in 1..Len(CodeOrder)}
StatusInputs == {"clean", "relapse", "unclear"}
CravingInputs == {"low", "skip"}

-----------------------------------------------------------------------------
(* Configuration *)

DEFAULT_TIMEZONE == "Europe/Amsterdam"
DEFAULT_REMINDER_TIME == <<"2", "1", ":", "0", "0">>
MinutesPerDay == 1440

\* the zone database: UTC offset in minutes of the zones that resolve
ZoneOffset == [z \in {"UTC", "Europe/Amsterdam", "Asia/Tokyo", "Australia/Brisbane"} |->
                 CASE z = "UTC" -> 0
                   [] z = "Europe/Amsterdam" -> 60
                   [] z = "Asia/Tokyo" -> 540
                   [] z = "Australia/Brisbane" -> 600]

NULL == "NULL"
\* Database.conn after connect()
Connected == "connected"
EmptyData == [k \in {} |-> NULL]
Idle == [state |-> "None", data |-> EmptyData]

Get(d, k, default) == IF k \in DOMAIN d THEN d[k] ELSE default

-----------------------------------------------------------------------------
(* Clock / timezone *)

DefaultZone(tz_str) == DEFAULT_TIMEZONE

\* a fallback to UTC instead of the configured default
UtcFallback(tz_str) == IF tz_str \in DOMAIN ZoneOffset THEN tz_str ELSE "UTC"

\* ZoneInfo(tz_str) with the except-branch fallback
ResolveZone(tz_str) ==
    IF tz_str \in DOMAIN ZoneOffset THEN tz_str ELSE DEFAULT_TIMEZONE

LocalMinutes(tz_str, t) == t + ZoneOffset[ResolveZone(tz_str)]

get_user_timezone(u) ==
    LET tz_str == IF u \in DOMAIN users THEN users[u].timezone ELSE DEFAULT_TIMEZONE
    IN IF tz_str = "" THEN DEFAULT_TIMEZONE ELSE tz_str

get_user_date(u) == LocalMinutes(get_user_timezone(u), now) \div MinutesPerDay

-----------------------------------------------------------------------------
(* Store *)

NewUserRow == [is_onboarded |-> 0, timezone |-> "Europe/Amsterdam",
               reminder_time |-> <<"2", "1", ":", "0", "0">>,
               support_enabled |-> 1, support_frequency |-> 1]

\* an INSERT OR REPLACE of the row, back to the column defaults
recreate_user(u) == (u :> NewUserRow) @@ users

get_or_create_user(u) ==
    IF u \in DOMAIN users THEN users ELSE (u :> NewUserRow) @@ users

UserRow(u) == IF u \in DOMAIN users THEN users[u] ELSE NewUserRow

set_user_onboarded(tbl, u) ==
    IF u \in DOMAIN tbl THEN [tbl EXCEPT ![u].is_onboarded = 1] ELSE tbl

set_user_reminder_time(tbl, u, time_str) ==
    IF u \in DOMAIN tbl THEN [tbl EXCEPT ![u].reminder_time = time_str] ELSE tbl

\* the rows of get_user_addictions in one of the orders the query may return
AddictionOrders(u) ==
    LET S == {c \in Codes : <<u, c>> \in user_addictions}
    IN {q \in UNION {[1..n -> S] : n \in 0..Cardinality(S)} :
          /\ Len(q) = Cardinality(S)
          /\ \A i, j \in 1..Len(q) : i # j => q[i] # q[j]}

KeepAddictions(tbl, u) == tbl

clear_user_addictions(tbl, u) == {r \in tbl : r[1] # u}

toggle_user_addiction(tbl, u, code) ==
    IF <<u, code>> \in tbl THEN tbl \ {<<u, code>>} ELSE tbl \cup {<<u, code>>}

RECURSIVE ToggleAll(_, _, _)
ToggleAll(tbl, u, selected) ==
    IF selected = <<>> THEN tbl
    ELSE ToggleAll(toggle_user_addiction(tbl, u, Head(selected)), u, Tail(selected))

LogKey(r) == <<r.user_id, r.date, r.addiction_code>>

\* a plain INSERT, without the ON CONFLICT clause and the unique key
insert_daily_log(tbl, u, date, code, status, craving_level) ==
    tbl \cup {[user_id |-> u, date |-> date, addiction_code |-> code,
               status |-> status, craving_level |-> craving_level]}

upsert_daily_log(tbl, u, date, code, status, craving_level) ==
    LET row == [user_id |-> u, date |-> date, addiction_code |-> code,
                status |-> status, craving_level |-> craving_level]
    IN IF \E r \in tbl : LogKey(r) = LogKey(row)
       THEN {IF LogKey(r) = LogKey(row)
             THEN [r EXCEPT !.status = status, !.craving_level = craving_level]
             ELSE r : r \in tbl}
       ELSE tbl \cup {row}

get_today_logs(u, date) == {r \in daily_logs : r.user_id = u /\ r.date = date}

\* SELECT date, status ... WHERE user_id = ? AND addiction_code = ? ORDER BY date DESC
RECURSIVE RowsByDateDesc(_)
RowsByDateDesc(rows) ==
    IF rows = {} THEN <<>>
    ELSE LET r == CHOOSE x \in rows : \A y \in rows : y.date <= x.date
         IN <<r>> \o RowsByDateDesc(rows \ {r})

\* a count of the clean rows that does not stop at the first other row
RECURSIVE CountClean(_)
CountClean(rows) ==
    IF rows = <<>> THEN 0
    ELSE (IF Head(rows).status = "clean" THEN 1 ELSE 0) + CountClean(Tail(rows))

\* the loop of get_streak: streak += 1 while the status is clean, else break
RECURSIVE CountLeadingClean(_)
CountLeadingClean(rows) ==
    IF rows = <<>> THEN 0
    ELSE IF Head(rows).status = "clean" THEN 1 + CountLeadingClean(Tail(rows))
    ELSE 0

get_streak(tbl, u, code) ==
    CountLeadingClean(RowsByDateDesc({r \in tbl : r.user_id = u /\ r.addiction_code = code}))

set_user_setting(tbl, u, key, value) ==
    {r \in tbl : ~(r.user_id = u /\ r.key = key)}
        \cup {[user_id |-> u, key |-> key, value |-> value]}

-----------------------------------------------------------------------------
(* Session (aiogram FSMContext over MemoryStorage) *)

set_state(s, st) == [s EXCEPT !.state = st]
update_data(s, kv) == [s EXCEPT !.data = kv @@ s.data]

SetSession(u, s) == session' = [session EXCEPT ![u] = s]
Ran(op, u) == last' = [op |-> op, user |-> u]

\* the connection holds no uncommitted statement
NoTxn == [open |-> FALSE]

\* conn.commit(): what the connection holds becomes the committed tables
Commit == txn' = NoTxn

HandlerFrame == UNCHANGED <<notifications_log, now, boot, environ, conn,
                   notification_templates, broadcast_log, tick, instances, delivered,
                            refused, saving, erased, call>>

SchedulerFrame == HandlerFrame /\ UNCHANGED txn

-----------------------------------------------------------------------------
(* Command, onboarding, menu and settings handlers *)

cmd_start(u) ==
    /\ users' = get_or_create_user(u)
    /\ SetSession(u, IF UserRow(u).is_onboarded = 1 THEN Idle
                     ELSE set_state(Idle, "viewing_preview"))
    /\ Ran("cmd_start", u)
    /\ UNCHANGED <<user_addictions, daily_logs, user_settings>>
    /\ Commit
    /\ HandlerFrame

unknown_callback(u) ==
    /\ users' = get_or_create_user(u)
    /\ SetSession(u, Idle)
    /\ Ran("unknown_callback", u)
    /\ UNCHANGED <<user_addictions, daily_logs, user_settings>>
    /\ Commit
    /\ HandlerFrame

menu_main(u) ==
    /\ SetSession(u, Idle)
    /\ Ran("menu_main", u)
    /\ UNCHANGED <<users, user_addictions, daily_logs, user_settings>>
    /\ SchedulerFrame

onboard_continue(u) ==
    /\ SetSession(u, update_data(set_state(session[u], "selecting_addictions"),
                                 [selected_addictions |-> <<>>]))
    /\ Ran("onboard_continue", u)
    /\ UNCHANGED <<users, user_addictions, daily_logs, user_settings>>
    /\ SchedulerFrame

\* selected.remove(code) / selected.append(code)
ToggleSelected(selected, code) ==
    IF \E i \in 1..Len(selected) : selected[i] = code
    THEN SelectSeq(selected, LAMBDA c : c # code)
    ELSE Append(selected, code)

toggle_addiction_callback(u, code) ==
    LET selected == Get(session[u].data, "selected_addictions", <<>>)
    IN /\ SetSession(u, update_data(session[u],
                        [selected_addictions |-> ToggleSelected(selected, code)]))
       /\ Ran("toggle_addiction_callback", u)
       /\ UNCHANGED <<users, user_addictions, daily_logs, user_settings>>
       /\ SchedulerFrame

addiction_done(u) ==
    LET selected == Get(session[u].data, "selected_addictions", <<>>)
    IN /\ IF selected = <<>>
          THEN UNCHANGED <<user_addictions, session>>
          ELSE /\ user_addictions' =
                     ToggleAll(clear_user_addictions(user_addictions, u), u, selected)
               /\ SetSession(u, set_state(session[u], "selecting_time"))
       /\ last' = [op |-> "addiction_done", user |-> u, selected |-> selected,
                   before |-> {r \in user_addictions : r[1] = u}]
       /\ UNCHANGED <<users, daily_logs, user_settings>>
       /\ txn' = IF selected = <<>> THEN txn ELSE NoTxn
       /\ HandlerFrame

select_time_callback(u, action) ==
    /\ IF action = "back"
       THEN /\ SetSession(u, set_state(session[u], "selecting_addictions"))
            /\ UNCHANGED users
       ELSE /\ users' = set_user_onboarded(set_user_reminder_time(users, u, action), u)
            /\ SetSession(u, Idle)
    /\ Ran("select_time_callback", u)
    /\ UNCHANGED <<user_addictions, daily_logs, user_settings>>
    /\ txn' = IF action = "back" THEN txn ELSE NoTxn
    /\ HandlerFrame

settings_addictions(u) ==
    /\ \E selected \in AddictionOrders(u) :
          SetSession(u, update_data(set_state(session[u], "changing_addictions"),
                                    [selected_addictions |-> selected]))
    /\ Ran("settings_addictions", u)
    /\ UNCHANGED <<users, user_addictions, daily_logs, user_settings>>
    /\ SchedulerFrame

set_user_support_enabled(tbl, u, enabled) ==
    IF u \in DOMAIN tbl THEN [tbl EXCEPT ![u].support_enabled = enabled] ELSE tbl

set_user_support_frequency(tbl, u, frequency) ==
    IF u \in DOMAIN tbl THEN [tbl EXCEPT ![u].support_frequency = frequency] ELSE tbl

settings_support_toggle(u) ==
    LET enabled == IF u \in DOMAIN users
                   THEN (IF users[u].support_enabled # 0 THEN 0 ELSE 1)
                   ELSE 0
    IN /\ users' = set_user_support_enabled(users, u, enabled)
       /\ Ran("settings_support_toggle", u)
       /\ UNCHANGED <<user_addictions, daily_logs, user_settings, session>>
       /\ Commit
       /\ HandlerFrame

settings_support_frequency(u, frequency) ==
    /\ users' = set_user_support_frequency(users, u, frequency)
    /\ Ran("settings_support_frequency", u)
    /\ UNCHANGED <<user_addictions, daily_logs, user_settings, session>>
    /\ Commit
    /\ HandlerFrame

goal_select(u, goal) ==
    /\ user_settings' = set_user_setting(user_settings, u, "daily_goal", goal)
    /\ Ran("goal_select", u)
    /\ UNCHANGED <<users, user_addictions, daily_logs, notifications_log, session>>
    /\ UNCHANGED <<now, boot, environ, conn,
                   notification_templates, broadcast_log, tick, instances, delivered, refused, saving, erased, call>>
    /\ Commit

\* the five DELETE statements of delete_user_data, committed together
DeleteUsersRow(tbl, u) == [v \in DOMAIN tbl \ {u} |-> tbl[v]]
DeleteUserAddictions(tbl, u) == {r \in tbl : r[1] # u}
DeleteDailyLogs(tbl, u) == {r \in tbl : r.user_id # u}
KeepUserSettings(tbl, u) == tbl
DeleteUserSettings(tbl, u) == {r \in tbl : r.user_id # u}
DeleteNotifications(tbl, u) ==
    [r \in {x \in DOMAIN tbl : x.user_id # u} |-> tbl[r]]

TablesHolding(u) ==
    (IF u \in DOMAIN users THEN {"users"} ELSE {})
    \cup (IF \E r \in user_addictions : r[1] = u THEN {"user_addictions"} ELSE {})
    \cup (IF \E r \in daily_logs : r.user_id = u THEN {"daily_logs"} ELSE {})
    \cup (IF \E r \in user_settings : r.user_id = u THEN {"user_settings"} ELSE {})
    \cup (IF \E r \in DOMAIN notifications_log : r.user_id = u
          THEN {"notifications_log"} ELSE {})

settings_delete_confirm(u) ==
    /\ users' = DeleteUsersRow(users, u)
    /\ user_addictions' = DeleteUserAddictions(user_addictions, u)
    /\ daily_logs' = DeleteDailyLogs(daily_logs, u)
    /\ user_settings' = DeleteUserSettings(user_settings, u)
    /\ notifications_log' = DeleteNotifications(notifications_log, u)
    /\ SetSession(u, Idle)
    /\ erased' = erased \cup {u}
    /\ last' = [op |-> "settings_delete_confirm", user |-> u, held |-> TablesHolding(u)]
    /\ UNCHANGED <<now, boot, environ, conn,
                   notification_templates, broadcast_log, tick, instances, delivered, refused, saving, call>>
    /\ Commit

\* the committed tables: what a rollback or a restart of the process finds
Committed ==
    IF txn.open THEN txn.base
    ELSE [users |-> users, user_addictions |-> user_addictions,
          daily_logs |-> daily_logs, user_settings |-> user_settings,
          notifications_log |-> notifications_log]

\* DELETE statements of delete_user_data that ran before the store raised
DeleteStatements == 1..4

\* delete_user_data raises after `done` of its DELETE statements: the lock is
\* released, nothing is committed or rolled back, and the handler is left before
\* state.clear()
settings_delete_fault(u, done) ==
    /\ users' = DeleteUsersRow(users, u)
    /\ user_addictions' = IF done >= 2 THEN DeleteUserAddictions(user_addictions, u)
                          ELSE user_addictions
    /\ daily_logs' = IF done >= 3 THEN DeleteDailyLogs(daily_logs, u) ELSE daily_logs
    /\ user_settings' = IF done >= 4 THEN DeleteUserSettings(user_settings, u)
                        ELSE user_settings
    /\ txn' = [open |-> TRUE, base |-> Committed]
    /\ last' = [op |-> "settings_delete_fault", user |-> u, done |-> done]
    /\ UNCHANGED <<notifications_log, session, now, boot, environ, conn,
                   notification_templates, broadcast_log, tick, instances, delivered,
                   refused, saving, erased, call>>

-----------------------------------------------------------------------------
(* Daily report handlers *)

ReportFrame ==
    /\ UNCHANGED <<users, user_addictions, user_settings>>
    /\ HandlerFrame

ConversationFrame == ReportFrame /\ UNCHANGED txn

NeverLogged(u, addictions, today) == FALSE

\* all(a in today_logs for a in addictions)
AllLogged(u, addictions, today) ==
    \A i \in 1..Len(addictions) :
        \E r \in get_today_logs(u, today) : r.addiction_code = addictions[i]

\* the session after "Start report flow"
StartFlow(s, today, addictions) ==
    update_data(set_state(s, "answering_addiction"),
                [report_date |-> today, addictions |-> addictions,
                 current_index |-> 0, logs |-> EmptyData])

menu_daily_report(u) ==
    /\ \E addictions \in AddictionOrders(u) :
          IF addictions = <<>> \/ AllLogged(u, addictions, get_user_date(u))
          THEN UNCHANGED session
          ELSE SetSession(u, StartFlow(session[u], get_user_date(u), addictions))
    /\ Ran("menu_daily_report", u)
    /\ UNCHANGED daily_logs
    /\ ConversationFrame

report_edit(u) ==
    /\ \E addictions \in AddictionOrders(u) :
          IF addictions = <<>>
          THEN UNCHANGED session
          ELSE SetSession(u, StartFlow(session[u], get_user_date(u), addictions))
    /\ Ran("report_edit", u)
    /\ UNCHANGED daily_logs
    /\ ConversationFrame

\* a status answer that treats relapse like the other answers
StatusAnswerAdvancing(s, status) ==
    LET addictions == Get(s.data, "addictions", <<>>)
        current_index == Get(s.data, "current_index", 0)
        logs == Get(s.data, "logs", EmptyData)
        current_addiction == addictions[current_index + 1]
        logs2 == (current_addiction :> [status |-> status]) @@ logs
        next_index == current_index + 1
    IN IF current_index >= Len(addictions) THEN s
       ELSE IF next_index < Len(addictions)
            THEN update_data(s, [logs |-> logs2, current_index |-> next_index])
       ELSE update_data(set_state(s, "answering_craving"), [logs |-> logs2])

\* a status answer that stops for the acknowledgment whatever the status
StatusAnswerStopping(s, status) ==
    LET addictions == Get(s.data, "addictions", <<>>)
        current_index == Get(s.data, "current_index", 0)
        logs == Get(s.data, "logs", EmptyData)
        current_addiction == addictions[current_index + 1]
        logs2 == (current_addiction :> [status |-> status]) @@ logs
    IN IF current_index >= Len(addictions) THEN s
       ELSE update_data(s, [logs |-> logs2, pending_relapse |-> TRUE])

\* the session after a status answer
StatusAnswer(s, status) ==
    LET addictions == Get(s.data, "addictions", <<>>)
        current_index == Get(s.data, "current_index", 0)
        logs == Get(s.data, "logs", EmptyData)
        current_addiction == addictions[current_index + 1]
        logs2 == (current_addiction :> [status |-> status]) @@ logs
        next_index == current_index + 1
    IN IF current_index >= Len(addictions) THEN s
       ELSE IF status = "relapse"
            THEN update_data(s, [logs |-> logs2, pending_relapse |-> TRUE])
       ELSE IF next_index < Len(addictions)
            THEN update_data(s, [logs |-> logs2, current_index |-> next_index])
       ELSE update_data(set_state(s, "answering_craving"), [logs |-> logs2])

report_status(u, status) ==
    /\ SetSession(u, StatusAnswer(session[u], status))
    /\ Ran("report_status", u)
    /\ UNCHANGED daily_logs
    /\ ConversationFrame

\* an acknowledgment that asks about the same behaviour again
ContinueAnswerRepeating(s) ==
    set_state(update_data(s, [pending_relapse |-> FALSE]), "answering_addiction")

\* the session after the relapse acknowledgment
ContinueAnswer(s) ==
    LET addictions == Get(s.data, "addictions", <<>>)
        current_index == Get(s.data, "current_index", 0)
        next_index == current_index + 1
    IN IF next_index < Len(addictions)
       THEN set_state(update_data(s, [current_index |-> next_index,
                                      pending_relapse |-> FALSE]),
                      "answering_addiction")
       ELSE set_state(s, "answering_craving")

report_continue(u) ==
    /\ SetSession(u, ContinueAnswer(session[u]))
    /\ Ran("report_continue", u)
    /\ UNCHANGED daily_logs
    /\ ConversationFrame

\* the session after a craving answer
CravingAnswer(s, craving) ==
    LET logs == Get(s.data, "logs", EmptyData)
        craving_value == IF craving # "skip" THEN craving ELSE NULL
        logs2 == [code \in DOMAIN logs |->
                    [craving_level |-> craving_value] @@ logs[code]]
    IN set_state(update_data(s, [logs |-> logs2]), "answering_support")

RECURSIVE SaveAllLogs(_, _, _, _, _)

\* a craving answer that also stores the buffered rows
report_craving_saving(u, craving) ==
    LET s == CravingAnswer(session[u], craving)
    IN /\ SetSession(u, s)
       /\ Ran("report_craving", u)
       /\ daily_logs' = SaveAllLogs(daily_logs, u, Get(s.data, "report_date", NULL),
                                    s.data["logs"], DOMAIN s.data["logs"])
       /\ ConversationFrame

report_craving(u, craving) ==
    /\ SetSession(u, CravingAnswer(session[u], craving))
    /\ Ran("report_craving", u)
    /\ UNCHANGED daily_logs
    /\ ConversationFrame

\* "Save all logs": one upsert_daily_log per buffered behaviour
SaveAllLogs(tbl, u, report_date, logs, codes) ==
    IF codes = {} THEN tbl
    ELSE LET code == CHOOSE c \in codes : TRUE
         IN SaveAllLogs(upsert_daily_log(tbl, u, report_date, code,
                                         Get(logs[code], "status", NULL),
                                         Get(logs[code], "craving_level", NULL)),
                        u, report_date, logs, codes \ {code})

\* the text report_support puts on the screen
SupportScreen(answer) == IF answer = "yes" THEN "emergency_help" ELSE "report_saved"

\* a completion that stores the buffer only when no support is asked for
report_support_routed(u, answer) ==
    LET logs == IF answer = "yes" THEN EmptyData
                ELSE Get(session[u].data, "logs", EmptyData)
        report_date == Get(session[u].data, "report_date", NULL)
    IN /\ daily_logs' = SaveAllLogs(daily_logs, u, report_date, logs, DOMAIN logs)
       /\ SetSession(u, Idle)
       /\ last' = [op |-> "report_support", user |-> u, from |-> session[u].state,
                   started |-> "report_date" \in DOMAIN session[u].data,
                   screen |-> SupportScreen(answer)]
       /\ txn' = IF DOMAIN logs = {} THEN txn ELSE NoTxn
       /\ ReportFrame

\* a completion that stores the buffer under the local date of the answer
report_support_today(u, answer) ==
    LET logs == Get(session[u].data, "logs", EmptyData)
        report_date == get_user_date(u)
    IN /\ daily_logs' = SaveAllLogs(daily_logs, u, report_date, logs, DOMAIN logs)
       /\ SetSession(u, Idle)
       /\ last' = [op |-> "report_support", user |-> u, from |-> session[u].state,
                   started |-> "report_date" \in DOMAIN session[u].data,
                   screen |-> SupportScreen(answer)]
       /\ txn' = IF DOMAIN logs = {} THEN txn ELSE NoTxn
       /\ ReportFrame

report_support(u, answer) ==
    LET logs == Get(session[u].data, "logs", EmptyData)
        report_date == Get(session[u].data, "report_date", NULL)
    IN /\ daily_logs' = SaveAllLogs(daily_logs, u, report_date, logs, DOMAIN logs)
       /\ SetSession(u, Idle)
       /\ last' = [op |-> "report_support", user |-> u, from |-> session[u].state,
                   started |-> "report_date" \in DOMAIN session[u].data,
                   screen |-> SupportScreen(answer)]
       /\ txn' = IF DOMAIN logs = {} THEN txn ELSE NoTxn
       /\ ReportFrame

\* no report_support coroutine is suspended
NotSaving == [pc |-> "none"]

\* report_support as the event loop runs it: every await of upsert_daily_log
\* lets other handlers and the scheduler run
SavingFrame == UNCHANGED <<users, user_addictions, user_settings, notifications_log,
                           now, boot, environ, conn,
                   notification_templates, broadcast_log, tick, instances, delivered, refused, erased, call>>

\* the buffered codes in the order logs.items() yields them
SaveOrder(data) ==
    LET logs == Get(data, "logs", EmptyData)
    IN SelectSeq(Get(data, "addictions", <<>>), LAMBDA code : code \in DOMAIN logs)

\* the handler up to the loop: the buffer and report_date are read from the session
report_support_begin(u, answer) ==
    /\ saving = NotSaving
    /\ saving' = [pc |-> "save", user |-> u, needs_support |-> answer = "yes",
                  logs |-> Get(session[u].data, "logs", EmptyData),
                  report_date |-> Get(session[u].data, "report_date", NULL),
                  todo |-> SaveOrder(session[u].data),
                  total |-> Len(SaveOrder(session[u].data))]
    /\ Ran("report_support_begin", u)
    /\ UNCHANGED <<daily_logs, session, txn>>
    /\ SavingFrame

\* conn.execute and conn.commit of one upsert_daily_log return or raise
StoreOutcomes == {"commit", "error"}

\* one pass of the loop; an exception of the store leaves the handler
report_support_save(outcome) ==
    /\ saving.pc = "save"
    /\ saving.todo # <<>>
    /\ IF outcome = "commit"
       THEN /\ daily_logs' =
                  upsert_daily_log(daily_logs, saving.user, saving.report_date,
                                   Head(saving.todo),
                                   Get(saving.logs[Head(saving.todo)], "status", NULL),
                                   Get(saving.logs[Head(saving.todo)], "craving_level", NULL))
            /\ saving' = [saving EXCEPT !.todo = Tail(@)]
       ELSE /\ UNCHANGED daily_logs
            /\ saving' = NotSaving
    /\ last' = [op |-> "report_support_save", user |-> saving.user, outcome |-> outcome,
                written |-> saving.total - Len(saving.todo), total |-> saving.total]
    /\ txn' = IF outcome = "commit" THEN NoTxn ELSE txn
    /\ UNCHANGED session
    /\ SavingFrame

\* after the loop: state.clear() and the closing message
report_support_end ==
    /\ saving.pc = "save"
    /\ saving.todo = <<>>
    /\ SetSession(saving.user, Idle)
    /\ saving' = NotSaving
    /\ Ran("report_support_end", saving.user)
    /\ UNCHANGED <<daily_logs, txn>>
    /\ SavingFrame

report_cancel(u) ==
    /\ SetSession(u, Idle)
    /\ Ran("report_cancel", u)
    /\ UNCHANGED daily_logs
    /\ ConversationFrame

-----------------------------------------------------------------------------
(* Clock *)

\* the stretch of server time between the two reminder windows of the model
NineHours == 9 * 60

\* minutes the clock ran since boot or since the last idle stretch
Elapsed == (now - boot) % NineHours

advance_minute ==
    /\ Elapsed < MaxElapsed
    /\ now' = now + 1
    /\ Ran("advance_minute", 0)
    /\ UNCHANGED <<store, session, boot, environ, conn, tick, instances, delivered, refused, saving, txn, erased, call>>

-----------------------------------------------------------------------------
(* Scheduler *)

\* value of a failed _parse_hhmm (Python None)
ParseFailed == 0 - 1

Digits == <<"0", "1", "2", "3", "4", "5", "6", "7", "8", "9">>
IsDigit(c) == \E d \in 1..10 : Digits[d] = c
DigitValue(c) == (CHOOSE d \in 1..10 : Digits[d] = c) - 1

\* int(text) for a text of decimal digits; ParseFailed where int() raises
RECURSIVE ToInt(_, _)
ToInt(text, acc) ==
    IF text = <<>> THEN acc
    ELSE IF ~IsDigit(Head(text)) THEN ParseFailed
    ELSE ToInt(Tail(text), acc * 10 + DigitValue(Head(text)))

ParseInt(text) == IF text = <<>> THEN ParseFailed ELSE ToInt(text, 0)

_parse_hhmm(value) ==
    LET colons == {i \in 1..Len(value) : value[i] = ":"}
    IN IF Cardinality(colons) # 1 THEN ParseFailed
       ELSE LET c == CHOOSE i \in colons : TRUE
                hh == ParseInt(SubSeq(value, 1, c - 1))
                mm == ParseInt(SubSeq(value, c + 1, Len(value)))
            IN IF hh = ParseFailed \/ mm = ParseFailed THEN ParseFailed
               ELSE IF 0 <= hh /\ hh <= 23 /\ 0 <= mm /\ mm <= 59
                    THEN hh * 60 + mm
                    ELSE ParseFailed

Abs(x) == IF x < 0 THEN 0 - x ELSE x
Min(x, y) == IF x <= y THEN x ELSE y

LinearDiff(a, b) == Abs(a - b)

_minutes_diff(a, b) == LET d == Abs(a - b) IN Min(d, 1440 - d)

\* the 1-minute tolerance test of scheduler_tick
IsDue(current_minutes, target_minutes) ==
    ~(_minutes_diff(current_minutes, target_minutes) > 1)

Noon == <<"1", "2", ":", "0", "0">>
Evening == <<"1", "8", ":", "0", "0">>

_support_times(reminder_time, frequency) ==
    LET base == IF reminder_time = <<>> THEN DEFAULT_REMINDER_TIME ELSE reminder_time
        extra == IF base # Noon THEN Noon ELSE Evening
    IN <<[type |-> "reminder", time |-> base]>>
       \o (IF (IF frequency = 0 THEN 1 ELSE frequency) >= 2 /\ extra # base
           THEN <<[type |-> "reminder2", time |-> extra]>>
           ELSE <<>>)

\* some onboarded user has a kind within the tolerance at server minute t
DueAt(t) ==
    \E u \in DOMAIN users :
       /\ users[u].is_onboarded = 1
       /\ LET local == LocalMinutes(IF users[u].timezone = "" THEN DEFAULT_TIMEZONE
                                    ELSE users[u].timezone, t)
              times == _support_times(users[u].reminder_time, users[u].support_frequency)
          IN \E k \in 1..Len(times) :
                /\ _parse_hhmm(times[k].time) # ParseFailed
                /\ IsDue(local % MinutesPerDay, _parse_hhmm(times[k].time))

\* the clock runs to the end of a stretch in which every tick finds its list
\* without a due kind and returns
advance_idle ==
    /\ instances = 0
    /\ {t \in (now + 1)..(now + NineHours - Elapsed - 1) : DueAt(t)} = {}
    /\ now' = now + NineHours - Elapsed
    /\ Ran("advance_idle", 0)
    /\ UNCHANGED <<store, session, boot, environ, conn, tick, instances, delivered, refused, saving, txn,
                   erased, call>>

\* rows of users WHERE is_onboarded = 1, in rowid order
RECURSIVE RowsFrom(_, _)
RowsFrom(tbl, ids) ==
    IF ids = {} THEN <<>>
    ELSE LET u == CHOOSE x \in ids : \A y \in ids : x <= y
         IN <<[user_id |-> u, reminder_time |-> tbl[u].reminder_time,
               timezone |-> tbl[u].timezone,
               support_enabled |-> tbl[u].support_enabled,
               support_frequency |-> tbl[u].support_frequency]>>
            \o RowsFrom(tbl, ids \ {u})

get_users_for_reminder == RowsFrom(users, {u \in DOMAIN users : users[u].is_onboarded = 1})

NotificationRow(u, notification_type, date) ==
    [user_id |-> u, notification_type |-> notification_type, date |-> date]

NeverSent(u, notification_type, date) == FALSE

was_notification_sent(u, notification_type, date) ==
    BagIn(NotificationRow(u, notification_type, date), notifications_log)

\* INSERT OR IGNORE under the unique index on (user_id, notification_type, date)
log_notification(tbl, u, notification_type, date) ==
    IF BagIn(NotificationRow(u, notification_type, date), tbl)
    THEN tbl
    ELSE tbl (+) SetToBag({NotificationRow(u, notification_type, date)})

\* int(user.get("support_enabled", 1) or 1) is truthy
SupportEnabled(support_enabled) ==
    (IF support_enabled = 0 THEN 1 ELSE support_enabled) # 0

TickIdle == [pc |-> "idle"]
TickUser == tick.users[tick.i]
TickTimes == _support_times(IF TickUser.reminder_time = <<>> THEN DEFAULT_REMINDER_TIME
                            ELSE TickUser.reminder_time,
                            IF TickUser.support_frequency = 0 THEN 1
                            ELSE TickUser.support_frequency)
TickKind == TickTimes[tick.k]

TickFrame == UNCHANGED <<users, user_addictions, daily_logs, user_settings,
                         session, now, boot, environ, conn,
                   notification_templates, broadcast_log, erased, call, saving>>

\* scheduler.add_job(scheduler_tick, "interval", ..., max_instances=1, coalesce=True)
max_instances == 1

AlwaysSubmit == TRUE

\* the job runner submits a run only below max_instances
CanSubmit == instances < max_instances

\* the interval trigger fires and the job runner starts scheduler_tick
tick_start ==
    /\ CanSubmit
    /\ instances' = instances + 1
    /\ tick' = [pc |-> "scan", users |-> get_users_for_reminder, i |-> 1, k |-> 1,
                minutes |-> 0, date |-> 0]
    /\ Ran("tick_start", 0)
    /\ UNCHANGED <<notifications_log, delivered, refused, txn>>
    /\ TickFrame

\* the interval trigger fires while a run is in flight: the run is skipped, and
\* coalesce=True folds the missed fire times into the next run
tick_skip ==
    /\ ~CanSubmit
    /\ Ran("tick_skip", 0)
    /\ UNCHANGED <<notifications_log, tick, instances, delivered, refused, txn>>
    /\ TickFrame

\* the loop up to the next await: the end of the list, a skipped user or kind,
\* or a due kind that was not sent yet
tick_scan ==
    /\ tick.pc = "scan"
    /\ IF tick.i > Len(tick.users)
       THEN tick' = TickIdle
       ELSE IF ~SupportEnabled(TickUser.support_enabled)
       THEN tick' = [tick EXCEPT !.i = @ + 1, !.k = 1]
       ELSE LET local == LocalMinutes(IF TickUser.timezone = "" THEN DEFAULT_TIMEZONE
                                      ELSE TickUser.timezone, now)
                t == IF tick.k = 1
                     THEN [tick EXCEPT !.minutes = local % MinutesPerDay,
                                       !.date = local \div MinutesPerDay]
                     ELSE tick
                target_minutes == _parse_hhmm(TickKind.time)
            IN IF tick.k > Len(TickTimes)
               THEN tick' = [tick EXCEPT !.i = @ + 1, !.k = 1]
               ELSE IF \/ target_minutes = ParseFailed
                       \/ ~IsDue(t.minutes, target_minutes)
                       \/ was_notification_sent(TickUser.user_id, TickKind.type, t.date)
               THEN tick' = [t EXCEPT !.k = @ + 1]
               ELSE tick' = [t EXCEPT !.pc = "send"]
    \* the coroutine returns and the job runner releases its instance
    /\ instances' = IF tick.i > Len(tick.users) THEN instances - 1 ELSE instances
    /\ Ran("tick_scan", 0)
    /\ UNCHANGED <<notifications_log, delivered, refused, txn>>
    /\ TickFrame

SendFaults == {"retry_after", "forbidden", "bad_request", "network", "other"}
\* what bot.send_message does on the first attempt and on the retry
SendOutcomes ==
    {<<"ok">>} \cup {<<f>> : f \in SendFaults \ {"retry_after"}}
    \cup {<<"retry_after", r>> : r \in {"ok"} \cup SendFaults}

SendSucceeds(outcome) == outcome[Len(outcome)] = "ok"

\* TelegramForbiddenError and TelegramBadRequest
PermanentFaults == {"forbidden", "bad_request"}
\* TelegramRetryAfter and TelegramNetworkError
TransientFaults == {"retry_after", "network"}
\* calls of bot.send_message that one run of _send_support_message makes
Attempts(outcome) == Len(outcome)

\* _send_support_message and the except clauses around it
\* a send whose fault leaves scheduler_tick through its outer except clause
tick_send_aborting(outcome) ==
    /\ tick.pc = "send"
    /\ IF SendSucceeds(outcome)
       THEN /\ BagCardinality(delivered) < MaxDelivered
            /\ delivered' = delivered (+)
                  SetToBag({NotificationRow(TickUser.user_id, TickKind.type, tick.date)})
            /\ tick' = [tick EXCEPT !.pc = "log"]
            /\ UNCHANGED instances
       ELSE /\ tick' = TickIdle
            /\ instances' = instances - 1
            /\ UNCHANGED delivered
    /\ refused' = IF outcome[Len(outcome)] \in PermanentFaults
                  THEN refused \cup {NotificationRow(TickUser.user_id, TickKind.type,
                                                     tick.date)}
                  ELSE refused
    /\ last' = [op |-> "tick_send", user |-> TickUser.user_id, outcome |-> outcome,
                type |-> TickKind.type, date |-> tick.date]
    /\ UNCHANGED <<notifications_log, txn>>
    /\ TickFrame

tick_send(outcome) ==
    /\ tick.pc = "send"
    /\ IF SendSucceeds(outcome)
       THEN /\ BagCardinality(delivered) < MaxDelivered
            /\ delivered' = delivered (+)
                  SetToBag({NotificationRow(TickUser.user_id, TickKind.type, tick.date)})
            /\ tick' = [tick EXCEPT !.pc = "log"]
       ELSE /\ tick' = [tick EXCEPT !.pc = "scan", !.k = @ + 1]
            /\ UNCHANGED delivered
    /\ refused' = IF outcome[Len(outcome)] \in PermanentFaults
                  THEN refused \cup {NotificationRow(TickUser.user_id, TickKind.type,
                                                     tick.date)}
                  ELSE refused
    /\ last' = [op |-> "tick_send", user |-> TickUser.user_id, outcome |-> outcome,
                type |-> TickKind.type, date |-> tick.date]
    /\ UNCHANGED <<notifications_log, instances, txn>>
    /\ TickFrame

tick_log ==
    /\ tick.pc = "log"
    /\ notifications_log' =
          log_notification(notifications_log, TickUser.user_id, TickKind.type, tick.date)
    /\ tick' = [tick EXCEPT !.pc = "scan", !.k = @ + 1]
    /\ Ran("tick_log", TickUser.user_id)
    /\ Commit
    /\ UNCHANGED <<instances, delivered, refused>>
    /\ TickFrame

-----------------------------------------------------------------------------
(* Shutdown *)

\* Database.close() may run: it takes no lock and asks for no idle scheduler
CanClose == conn # NULL

\* scheduler.shutdown(wait=False), then db.close(): the scheduler stops without
\* waiting for a run in flight, the connection is closed and what it had not
\* committed is rolled back. A run in flight is left where it waits and ends
\* with the event loop.
_on_shutdown ==
    /\ CanClose
    /\ conn' = NULL
    /\ users' = Committed.users
    /\ user_addictions' = Committed.user_addictions
    /\ daily_logs' = Committed.daily_logs
    /\ user_settings' = Committed.user_settings
    /\ notifications_log' = Committed.notifications_log
    /\ txn' = NoTxn
    /\ last' = [op |-> "_on_shutdown", user |-> 0, tick |-> tick.pc]
    /\ UNCHANGED <<notification_templates, broadcast_log, environ, session, now, boot,
                   tick, instances, delivered, refused, saving, erased, call>>

-----------------------------------------------------------------------------
(* Admin handlers *)

\* os.environ without ADMIN_USER_ID
Unset == [k \in {} |-> 0]

\* the default of os.getenv("ADMIN_USER_ID", "8513112712"); 3 stands for the
\* id 8513112712, which TLC's 32-bit integers cannot hold
DefaultAdminId == 3

ADMIN_USER_ID == Get(environ, "ADMIN_USER_ID", DefaultAdminId)

AnyoneAdmin(user_id) == TRUE

is_admin(user_id) == user_id = ADMIN_USER_ID

\* the rows Database.init inserts from SUPPORT_MESSAGES, two of them
DefaultTemplates ==
    (1 :> [text |-> "m1", is_active |-> 1]) @@ (2 :> [text |-> "m2", is_active |-> 1])

\* UPDATE ... SET is_active = NOT is_active WHERE id = ?
toggle_template(tbl, template_id) ==
    IF template_id \in DOMAIN tbl
    THEN [tbl EXCEPT ![template_id].is_active = 1 - @]
    ELSE tbl

\* the unique index idx_templates_text_unique refuses a text that is present
TemplateRefused(tbl, text) == \E id \in DOMAIN tbl : tbl[id].text = text

\* INSERT INTO notification_templates (text) VALUES (?)
add_template(tbl, text) ==
    (Cardinality(DOMAIN tbl) + 1 :> [text |-> text, is_active |-> 1]) @@ tbl

\* INSERT INTO broadcast_log (text, sent_count, error_count) VALUES (?, ?, ?)
log_broadcast(tbl, text, sent_count, error_count) ==
    Append(tbl, [text |-> text, sent_count |-> sent_count, error_count |-> error_count])

AdminFrame == UNCHANGED <<users, user_addictions, daily_logs, user_settings,
                          notifications_log, now, boot, environ, conn, tick, instances,
                          delivered, refused, saving, erased, call>>

\* a handler that touches neither table of the admin surface nor the connection
AdminReads == UNCHANGED <<notification_templates, broadcast_log, txn>>

cmd_admin(u) ==
    /\ IF ~is_admin(u)
       THEN UNCHANGED session
       ELSE SetSession(u, set_state(session[u], "AdminStates:main"))
    /\ Ran("cmd_admin", u)
    /\ AdminReads
    /\ AdminFrame

menu_admin(u) ==
    /\ IF ~is_admin(u)
       THEN UNCHANGED session
       ELSE SetSession(u, set_state(session[u], "AdminStates:main"))
    /\ Ran("menu_admin", u)
    /\ AdminReads
    /\ AdminFrame

admin_stats(u) ==
    /\ Ran("admin_stats", u)
    /\ UNCHANGED session
    /\ AdminReads
    /\ AdminFrame

\* backup_database_copy commits the connection before it copies the file
admin_export(u) ==
    /\ txn' = IF ~is_admin(u) THEN txn ELSE NoTxn
    /\ Ran("admin_export", u)
    /\ UNCHANGED <<session, notification_templates, broadcast_log>>
    /\ AdminFrame

admin_broadcast(u) ==
    /\ IF ~is_admin(u)
       THEN UNCHANGED session
       ELSE SetSession(u, set_state(session[u], "AdminStates:broadcast_text"))
    /\ Ran("admin_broadcast", u)
    /\ AdminReads
    /\ AdminFrame

admin_broadcast_text(u, text) ==
    /\ session[u].state = "AdminStates:broadcast_text"
    /\ IF ~is_admin(u) \/ text = ""
       THEN UNCHANGED session
       ELSE SetSession(u, set_state(update_data(session[u], [broadcast_text |-> text]),
                                    "AdminStates:broadcast_confirm"))
    /\ Ran("admin_broadcast_text", u)
    /\ AdminReads
    /\ AdminFrame

\* the loop over get_all_users(): sent of the sends succeed, the others are
\* counted as errors
admin_broadcast_confirm(u, sent) ==
    LET text == Get(session[u].data, "broadcast_text", "")
        total == Cardinality(DOMAIN users)
    IN /\ sent <= total
       /\ IF ~is_admin(u) \/ text = ""
          THEN UNCHANGED <<session, broadcast_log, txn>>
          ELSE /\ Len(broadcast_log) < MaxBroadcasts
               /\ broadcast_log' = log_broadcast(broadcast_log, text, sent, total - sent)
               /\ SetSession(u, set_state(session[u], "AdminStates:main"))
               /\ Commit
       /\ Ran("admin_broadcast_confirm", u)
       /\ UNCHANGED notification_templates
       /\ AdminFrame

admin_templates(u) ==
    /\ IF ~is_admin(u)
       THEN UNCHANGED session
       ELSE SetSession(u, update_data(set_state(session[u], "AdminStates:viewing_templates"),
                                      [templates_page |-> 0]))
    /\ Ran("admin_templates", u)
    /\ AdminReads
    /\ AdminFrame

admin_template_toggle(u, template_id) ==
    /\ IF ~is_admin(u)
       THEN UNCHANGED <<notification_templates, txn>>
       ELSE /\ notification_templates' = toggle_template(notification_templates, template_id)
            /\ Commit
    /\ Ran("admin_template_toggle", u)
    /\ UNCHANGED <<session, broadcast_log>>
    /\ AdminFrame

admin_template_page(u, page) ==
    /\ IF ~is_admin(u)
       THEN UNCHANGED session
       ELSE SetSession(u, update_data(session[u], [templates_page |-> page]))
    /\ Ran("admin_template_page", u)
    /\ AdminReads
    /\ AdminFrame

admin_template_add(u) ==
    /\ IF ~is_admin(u)
       THEN UNCHANGED session
       ELSE SetSession(u, set_state(session[u], "AdminStates:adding_template"))
    /\ Ran("admin_template_add", u)
    /\ AdminReads
    /\ AdminFrame

\* a text the unique index refuses raises out of add_template: the handler
\* ends before set_state
admin_template_text(u, text) ==
    /\ session[u].state = "AdminStates:adding_template"
    /\ IF ~is_admin(u) \/ text = "" \/ TemplateRefused(notification_templates, text)
       THEN UNCHANGED <<session, notification_templates, txn>>
       ELSE /\ notification_templates' = add_template(notification_templates, text)
            /\ SetSession(u, set_state(session[u], "AdminStates:viewing_templates"))
            /\ Commit
    /\ Ran("admin_template_text", u)
    /\ UNCHANGED broadcast_log
    /\ AdminFrame

admin_scheduler(u) ==
    /\ Ran("admin_scheduler", u)
    /\ UNCHANGED session
    /\ AdminReads
    /\ AdminFrame

-----------------------------------------------------------------------------
(* Initial states: a store left by earlier runs of the process *)

\* 19:58 UTC of day 1: 20:58 in Amsterdam, 04:58 of day 2 in Tokyo
BootTime == MinutesPerDay + 1198

\* user 2 only owns rows
Bystander == [is_onboarded |-> 1, timezone |-> "Asia/Tokyo",
              reminder_time |-> <<"0", "5", ":", "0", "0">>,
              support_enabled |-> 1, support_frequency |-> 1]

\* notifications_log as an older version of the bot, which had no unique index,
\* left it: yesterday's reminder of user 1 was logged twice
LegacyNotifications ==
    (NotificationRow(1, "reminder", 0) :> 2) @@ (NotificationRow(2, "reminder", 1) :> 1)

\* init_db: DELETE ... WHERE id NOT IN (SELECT MIN(id) ... GROUP BY user_id,
\* notification_type, date), then the unique index
KeepDuplicates(tbl) == tbl

DeduplicateNotifications(tbl) == [r \in DOMAIN tbl |-> 1]

InitStore(tracked) ==
    /\ users = (1 :> [NewUserRow EXCEPT !.is_onboarded = 1]) @@ (2 :> Bystander)
    /\ user_addictions = {<<2, "alcohol">>} \cup {<<1, c>> : c \in tracked}
    /\ daily_logs = {[user_id |-> 2, date |-> 1, addiction_code |-> "alcohol",
                      status |-> "clean", craving_level |-> "low"]}
                    \cup {[user_id |-> 1, date |-> 0, addiction_code |-> c,
                           status |-> "clean", craving_level |-> NULL] : c \in tracked}
    /\ user_settings = {[user_id |-> 2, key |-> "daily_goal", value |-> "goal0"]}
    /\ notifications_log = DeduplicateNotifications(LegacyNotifications)

InitProcess ==
    /\ session = [u \in Users |-> Idle]
    /\ boot = BootTime
    /\ now = BootTime
    /\ tick = TickIdle
    /\ instances = 0
    /\ delivered = EmptyBag
    /\ refused = {}
    /\ saving = NotSaving
    /\ txn = NoTxn
    /\ erased = {}
    /\ notification_templates = DefaultTemplates
    /\ broadcast_log = <<>>
    /\ environ = Unset
    /\ conn = Connected
    /\ last = [op |-> "init", user |-> 0]
    /\ call = [op |-> "none"]

-----------------------------------------------------------------------------
(* The conversation engine over the store *)

Init ==
    /\ \E tracked \in SUBSET Codes \ {{}} : InitStore(tracked)
    /\ InitProcess

Next ==
    \/ \E u \in Callers : cmd_start(u)
    \/ \E u \in Callers : unknown_callback(u)
    \/ \E u \in Callers : menu_main(u)
    \/ \E u \in Callers : goal_select(u, "goal1")
    \/ \E u \in Callers : settings_delete_confirm(u)
    \/ \E u \in Callers : menu_daily_report(u)
    \/ \E u \in Callers : report_edit(u)
    \/ \E u \in Callers, status \in StatusInputs : report_status(u, status)
    \/ \E u \in Callers : report_continue(u)
    \/ \E u \in Callers, craving \in CravingInputs : report_craving(u, craving)
    \/ \E u \in Callers, answer \in {"yes", "no"} : report_support(u, answer)
    \/ \E u \in Callers : report_cancel(u)

Spec == Init /\ [][Next]_vars

-----------------------------------------------------------------------------
(* The completion of a report, await by await, among other handlers *)

PersistInit == Init

PersistNext ==
    \/ \E u \in Callers : menu_daily_report(u)
    \/ \E u \in Callers, status \in {"clean", "unclear"} : report_status(u, status)
    \/ \E u \in Callers : report_continue(u)
    \/ \E u \in Callers : report_craving(u, "low")
    \/ \E u \in Callers : report_support_begin(u, "no")
    \/ \E outcome \in StoreOutcomes : report_support_save(outcome)
    \/ report_support_end
    \/ \E u \in Callers : settings_delete_confirm(u)

PersistSpec == PersistInit /\ [][PersistNext]_vars

-----------------------------------------------------------------------------
(* Onboarding and the settings that replace the tracked set, from an empty
   account on *)

OnboardInit ==
    /\ users = (2 :> Bystander)
    /\ user_addictions = {<<2, "alcohol">>}
    /\ daily_logs = {}
    /\ user_settings = {}
    /\ notifications_log = EmptyBag
    /\ InitProcess

OnboardNext ==
    \/ \E u \in Callers : cmd_start(u)
    \/ \E u \in Callers : onboard_continue(u)
    \/ \E u \in Callers, code \in Codes : toggle_addiction_callback(u, code)
    \/ \E u \in Callers : addiction_done(u)
    \/ \E u \in Callers, action \in {"back", DEFAULT_REMINDER_TIME} :
          select_time_callback(u, action)
    \/ \E u \in Callers : settings_addictions(u)
    \/ \E u \in Callers : settings_support_toggle(u)
    \/ \E u \in Callers : menu_main(u)
    \/ \E u \in Callers : settings_delete_confirm(u)
    \/ tick_start
    \/ tick_skip
    \/ tick_scan

OnboardSpec == OnboardInit /\ [][OnboardNext]_vars

-----------------------------------------------------------------------------
(* Deletion of a user's data against faults of the store *)

DeleteInit ==
    /\ InitStore({"alcohol"})
    /\ InitProcess

DeleteNext ==
    \/ \E u \in Callers : settings_delete_confirm(u)
    \/ \E u \in Callers, done \in DeleteStatements : settings_delete_fault(u, done)
    \/ \E u \in Callers, goal \in {"goal1", "goal2"} : goal_select(u, goal)
    \/ \E u \in Callers : cmd_start(u)
    \/ \E u \in Callers : settings_support_toggle(u)
    \/ \E u \in Callers, action \in {DEFAULT_REMINDER_TIME, Noon} :
          select_time_callback(u, action)

DeleteSpec == DeleteInit /\ [][DeleteNext]_vars

-----------------------------------------------------------------------------
(* The scheduler over the store, with the settings that steer it *)

SchedInit ==
    /\ InitStore({"alcohol"})
    /\ InitProcess

SchedNext ==
    \/ tick_start
    \/ tick_skip
    \/ tick_scan
    \/ \E outcome \in {<<"ok">>, <<"network">>} : tick_send(outcome)
    \/ tick_log
    \/ advance_minute
    \/ \E u \in Callers : settings_support_toggle(u)
    \/ \E u \in Callers, frequency \in {1, 2} : settings_support_frequency(u, frequency)
    \/ \E u \in Callers : settings_delete_confirm(u)
    \/ \E u \in Callers : cmd_start(u)
    \/ \E u \in Callers, action \in {DEFAULT_REMINDER_TIME, Noon} :
          select_time_callback(u, action)

SchedSpec == SchedInit /\ [][SchedNext]_vars

-----------------------------------------------------------------------------
(* The scheduler against every outcome of the outbound channel *)

FaultInit == SchedInit

FaultNext ==
    \/ tick_start
    \/ tick_skip
    \/ tick_scan
    \/ \E outcome \in SendOutcomes : tick_send(outcome)
    \/ tick_log
    \/ advance_minute

FaultSpec == FaultInit /\ [][FaultNext]_vars

-----------------------------------------------------------------------------
(* Two users with one reminder time in zones nine hours apart *)

\* the process starts two minutes before the reminder time of the eastern user
ZoneBoot(time_str) ==
    MinutesPerDay
      + ((_parse_hhmm(time_str) - 2 - ZoneOffset["Australia/Brisbane"]) % MinutesPerDay)

ZoneInit ==
    \E time_str \in {DEFAULT_REMINDER_TIME, <<"0", "5", ":", "0", "0">>} :
       /\ users = (1 :> [NewUserRow EXCEPT !.is_onboarded = 1,
                                           !.reminder_time = time_str])
                  @@ (2 :> [NewUserRow EXCEPT !.is_onboarded = 1,
                                              !.reminder_time = time_str,
                                              !.timezone = "Australia/Brisbane"])
       /\ user_addictions = {<<1, "alcohol">>, <<2, "alcohol">>}
       /\ daily_logs = {}
       /\ user_settings = {}
       /\ notifications_log = EmptyBag
       /\ session = [u \in Users |-> Idle]
       /\ boot = ZoneBoot(time_str)
       /\ now = ZoneBoot(time_str)
       /\ tick = TickIdle
       /\ instances = 0
       /\ delivered = EmptyBag
       /\ refused = {}
       /\ saving = NotSaving
       /\ txn = NoTxn
       /\ erased = {}
       /\ notification_templates = DefaultTemplates
       /\ broadcast_log = <<>>
       /\ environ = Unset
       /\ conn = Connected
       /\ last = [op |-> "init", user |-> 0]
       /\ call = [op |-> "none"]

ZoneNext ==
    \/ tick_start
    \/ tick_skip
    \/ tick_scan
    \/ \E outcome \in SendOutcomes : tick_send(outcome)
    \/ tick_log
    \/ advance_minute
    \/ advance_idle

ZoneSpec == ZoneInit /\ [][ZoneNext]_vars

-----------------------------------------------------------------------------
(* The tolerance test on sampled clock readings and targets *)

\* seconds of the local day at which a tick reads the clock
SecondSamples == {m * 60 + sec : m \in 0..1439, sec \in {0, 59}}
\* target minutes-of-day: midnight, its neighbours, noon, 21:00
TargetSamples == {0, 1, 2, 720, 1260, 1438, 1439}

\* now.hour * 60 + now.minute
CurrentMinutes(seconds) == (seconds \div 3600) * 60 + (seconds % 3600) \div 60

check_due ==
    /\ call.op = "input"
    /\ call' = [op |-> "check_due", seconds |-> call.seconds, target |-> call.target,
                current |-> CurrentMinutes(call.seconds),
                diff |-> _minutes_diff(CurrentMinutes(call.seconds), call.target),
                due |-> IsDue(CurrentMinutes(call.seconds), call.target)]
    /\ UNCHANGED <<store, session, now, boot, environ, conn, tick, instances, delivered, refused, saving, txn, erased, last>>

DueInit ==
    /\ InitStore({"alcohol"})
    /\ session = [u \in Users |-> Idle]
    /\ boot = BootTime
    /\ now = BootTime
    /\ tick = TickIdle
    /\ instances = 0
    /\ delivered = EmptyBag
    /\ refused = {}
    /\ saving = NotSaving
    /\ txn = NoTxn
    /\ erased = {}
    /\ notification_templates = DefaultTemplates
    /\ broadcast_log = <<>>
    /\ environ = Unset
    /\ conn = Connected
    /\ last = [op |-> "init", user |-> 0]
    /\ \E seconds \in SecondSamples, target \in TargetSamples :
          call = [op |-> "input", seconds |-> seconds, target |-> target]

DueNext == check_due

DueSpec == DueInit /\ [][DueNext]_vars

-----------------------------------------------------------------------------
(* The notification kinds of one user, on sampled reminder times *)

\* texts that "time:<text>" callbacks and the users table can hold
HourTexts == {<<"7">>, <<"0", "7">>, <<"1", "2">>, <<"0", "1", "2">>, <<"1", "8">>,
              <<"2", "1">>, <<"2", "3">>, <<"0">>, <<"2", "4">>, <<"x">>}
MinuteTexts == {<<"0", "0">>, <<"0">>, <<"3", "0">>}
TimeSamples == {h \o <<":">> \o m : h \in HourTexts, m \in MinuteTexts} \cup {<<>>}
\* values of users.support_frequency; 0 stands for NULL as well
FrequencySamples == 0..3

support_times_call ==
    /\ call.op = "input"
    /\ call' = [op |-> "_support_times", reminder_time |-> call.reminder_time,
                frequency |-> call.frequency,
                times |-> _support_times(call.reminder_time, call.frequency)]
    /\ UNCHANGED <<store, session, now, boot, environ, conn, tick, instances, delivered, refused,
                   saving, txn, erased, last>>

TimesInit ==
    /\ InitStore({"alcohol"})
    /\ session = [u \in Users |-> Idle]
    /\ boot = BootTime
    /\ now = BootTime
    /\ tick = TickIdle
    /\ instances = 0
    /\ delivered = EmptyBag
    /\ refused = {}
    /\ saving = NotSaving
    /\ txn = NoTxn
    /\ erased = {}
    /\ notification_templates = DefaultTemplates
    /\ broadcast_log = <<>>
    /\ environ = Unset
    /\ conn = Connected
    /\ last = [op |-> "init", user |-> 0]
    /\ \E reminder_time \in TimeSamples, frequency \in FrequencySamples :
          call = [op |-> "input", reminder_time |-> reminder_time,
                  frequency |-> frequency]

TimesNext == support_times_call

TimesSpec == TimesInit /\ [][TimesNext]_vars

-----------------------------------------------------------------------------
(* upsert_daily_log under arbitrary sequences of calls *)

\* report dates of the calls: yesterday and today
DateSamples == {0, 1}

upsert_call(u, date, code, status, craving_level) ==
    /\ daily_logs' = upsert_daily_log(daily_logs, u, date, code, status, craving_level)
    /\ call' = [op |-> "upsert_daily_log", user_id |-> u, date |-> date,
                addiction_code |-> code, status |-> status,
                craving_level |-> craving_level]
    /\ UNCHANGED <<users, user_addictions, user_settings, notifications_log, session,
                   now, boot, environ, conn,
                   notification_templates, broadcast_log, tick, instances, delivered, refused, saving, erased,
                   last>>
    /\ Commit

UpsertInit ==
    /\ InitStore({"alcohol"})
    /\ InitProcess

UpsertNext ==
    \E u \in Callers, date \in DateSamples, code \in Codes, status \in StatusInputs,
       craving_level \in {NULL, "low"} :
          upsert_call(u, date, code, status, craving_level)

UpsertSpec == UpsertInit /\ [][UpsertNext]_vars

-----------------------------------------------------------------------------
(* Stored timezone identifiers, valid or not, in the tick and in the handlers *)

\* values of users.timezone: NULL or empty, no zone of the database, two zones
TimezoneSamples == {"", "Mars/Phobos", "Europe/Amsterdam", "Asia/Tokyo"}

TimezoneInit ==
    /\ \E tz_str \in TimezoneSamples :
          users = (1 :> [NewUserRow EXCEPT !.is_onboarded = 1, !.timezone = tz_str])
                  @@ (2 :> Bystander)
    /\ user_addictions = {<<1, "alcohol">>, <<2, "alcohol">>}
    /\ daily_logs = {}
    /\ user_settings = {}
    /\ notifications_log = EmptyBag
    /\ InitProcess

TimezoneNext ==
    \/ tick_start
    \/ tick_skip
    \/ tick_scan
    \/ \E outcome \in {<<"ok">>, <<"forbidden">>} : tick_send(outcome)
    \/ tick_log
    \/ advance_minute
    \/ \E u \in Callers : menu_daily_report(u)
    \/ \E u \in Callers : report_cancel(u)

TimezoneSpec == TimezoneInit /\ [][TimezoneNext]_vars

-----------------------------------------------------------------------------
(* Reminder times as the "time:<text>" callbacks store them, under the tick *)

\* texts after "time:" in callback data: the keyboard's 21:00, and two texts no
\* keyboard offers
TimeActions == {DEFAULT_REMINDER_TIME, <<"2", "4", ":", "0", "0">>, <<"x", ":", "0", "0">>}

ReminderInit ==
    /\ users = (1 :> [NewUserRow EXCEPT !.is_onboarded = 1]) @@ (2 :> Bystander)
    /\ user_addictions = {<<1, "alcohol">>, <<2, "alcohol">>}
    /\ daily_logs = {}
    /\ user_settings = {}
    /\ notifications_log = EmptyBag
    /\ InitProcess

ReminderNext ==
    \/ \E u \in Callers : select_time_callback(u, "back")
    \/ \E u \in Callers, action \in TimeActions : select_time_callback(u, action)
    \/ tick_start
    \/ tick_skip
    \/ tick_scan
    \/ \E outcome \in {<<"ok">>, <<"network">>} : tick_send(outcome)
    \/ tick_log
    \/ advance_minute

ReminderSpec == ReminderInit /\ [][ReminderNext]_vars

-----------------------------------------------------------------------------
(* The admin surface, with and without ADMIN_USER_ID in the environment *)

\* the users that send updates: user 1 and the owner of the default admin id
AdminCallers == {1, DefaultAdminId}
\* message texts: none, the text of a default template, a new text
TextSamples == {"", "m1", "hello"}
\* ids after "template:toggle:": two rows and no row
TemplateIds == {1, 2, 9}

AdminInit ==
    /\ users = (1 :> [NewUserRow EXCEPT !.is_onboarded = 1]) @@ (2 :> Bystander)
    /\ user_addictions = {<<1, "alcohol">>, <<2, "alcohol">>}
    /\ daily_logs = {}
    /\ user_settings = {}
    /\ notifications_log = EmptyBag
    /\ notification_templates = DefaultTemplates
    /\ broadcast_log = <<>>
    /\ environ \in {Unset, "ADMIN_USER_ID" :> 1}
    /\ conn = Connected
    /\ session = [u \in Users \cup AdminCallers |-> Idle]
    /\ boot = BootTime
    /\ now = BootTime
    /\ tick = TickIdle
    /\ instances = 0
    /\ delivered = EmptyBag
    /\ refused = {}
    /\ saving = NotSaving
    /\ txn = NoTxn
    /\ erased = {}
    /\ last = [op |-> "init", user |-> 0]
    /\ call = [op |-> "none"]

AdminNext ==
    \/ \E u \in AdminCallers : cmd_admin(u)
    \/ \E u \in AdminCallers : menu_admin(u)
    \/ \E u \in AdminCallers : admin_stats(u)
    \/ \E u \in AdminCallers : admin_export(u)
    \/ \E u \in AdminCallers : admin_broadcast(u)
    \/ \E u \in AdminCallers, text \in TextSamples : admin_broadcast_text(u, text)
    \/ \E u \in AdminCallers, sent \in 0..2 : admin_broadcast_confirm(u, sent)
    \/ \E u \in AdminCallers : admin_templates(u)
    \/ \E u \in AdminCallers, template_id \in TemplateIds : admin_template_toggle(u, template_id)
    \/ \E u \in AdminCallers, page \in {0, 1} : admin_template_page(u, page)
    \/ \E u \in AdminCallers : admin_template_add(u)
    \/ \E u \in AdminCallers, text \in TextSamples : admin_template_text(u, text)
    \/ \E u \in AdminCallers : admin_scheduler(u)
    \/ \E u \in AdminCallers : menu_main(u)

AdminSpec == AdminInit /\ [][AdminNext]_vars

-----------------------------------------------------------------------------
(* The scheduler up to the shutdown of the process *)

ShutdownInit == ReminderInit

\* after _on_shutdown the polling loop has ended and the process exits
ShutdownNext ==
    \/ /\ conn # NULL
       /\ \/ tick_start
          \/ tick_skip
          \/ tick_scan
          \/ \E outcome \in {<<"ok">>, <<"network">>} : tick_send(outcome)
          \/ tick_log
          \/ advance_minute
          \/ \E u \in Callers : settings_support_toggle(u)
    \/ _on_shutdown

ShutdownSpec == ShutdownInit /\ [][ShutdownNext]_vars

-----------------------------------------------------------------------------
(* Ticks over the local midnight of a user *)

\* 22:58 UTC of day 1: 23:58 of day 1 in Amsterdam
MidnightBoot == MinutesPerDay + 1378

\* reminder times whose tolerance window lies around 00:00
MidnightTimes == {<<"2", "3", ":", "5", "9">>, <<"0", "0", ":", "0", "0">>,
                  <<"0", "0", ":", "0", "1">>}

MidnightInit ==
    /\ \E time_str \in MidnightTimes :
          users = (1 :> [NewUserRow EXCEPT !.is_onboarded = 1, !.reminder_time = time_str])
                  @@ (2 :> Bystander)
    /\ user_addictions = {<<1, "alcohol">>, <<2, "alcohol">>}
    /\ daily_logs = {}
    /\ user_settings = {}
    /\ notifications_log = EmptyBag
    /\ notification_templates = DefaultTemplates
    /\ broadcast_log = <<>>
    /\ environ = Unset
    /\ conn = Connected
    /\ session = [u \in Users |-> Idle]
    /\ boot = MidnightBoot
    /\ now = MidnightBoot
    /\ tick = TickIdle
    /\ instances = 0
    /\ delivered = EmptyBag
    /\ refused = {}
    /\ saving = NotSaving
    /\ txn = NoTxn
    /\ erased = {}
    /\ last = [op |-> "init", user |-> 0]
    /\ call = [op |-> "none"]

MidnightNext ==
    \/ tick_start
    \/ tick_skip
    \/ tick_scan
    \/ \E outcome \in {<<"ok">>, <<"network">>} : tick_send(outcome)
    \/ tick_log
    \/ advance_minute

MidnightSpec == MidnightInit /\ [][MidnightNext]_vars

-----------------------------------------------------------------------------
(* Deletion of a user's data while a completion or a tick is in flight *)

RaceInit ==
    /\ InitStore({"alcohol"})
    /\ InitProcess

RaceNext ==
    \/ \E u \in Callers : menu_daily_report(u)
    \/ \E u \in Callers : report_status(u, "clean")
    \/ \E u \in Callers : report_craving(u, "low")
    \/ \E u \in Callers : report_support_begin(u, "no")
    \/ report_support_save("commit")
    \/ report_support_end
    \/ \E u \in Callers : settings_delete_confirm(u)
    \/ tick_start
    \/ tick_skip
    \/ tick_scan
    \/ tick_send(<<"ok">>)
    \/ tick_log
    \/ advance_minute

RaceSpec == RaceInit /\ [][RaceNext]_vars

-----------------------------------------------------------------------------
(* One report flow after the other, the user answering the prompt on the screen *)

\* the keyboard the last message of the flow shows
Prompt(s) ==
    CASE s.state = "answering_addiction" /\ Get(s.data, "pending_relapse", FALSE) = TRUE
            -> "relapse_support"
      [] s.state = "answering_addiction" -> "daily_report"
      [] s.state = "answering_craving" -> "craving"
      [] s.state = "answering_support" -> "need_support"
      [] OTHER -> "main_menu"

FlowInit ==
    /\ \E tracked \in SUBSET Codes \ {{}} : InitStore(tracked)
    /\ InitProcess

FlowNext ==
    \/ \E u \in Callers : Prompt(session[u]) = "main_menu" /\ menu_daily_report(u)
    \/ \E u \in Callers : Prompt(session[u]) = "main_menu" /\ report_edit(u)
    \/ \E u \in Callers, status \in StatusInputs :
          Prompt(session[u]) = "daily_report" /\ report_status(u, status)
    \/ \E u \in Callers : Prompt(session[u]) = "relapse_support" /\ report_continue(u)
    \/ \E u \in Callers, craving \in CravingInputs :
          Prompt(session[u]) = "craving" /\ report_craving(u, craving)
    \/ \E u \in Callers, answer \in {"yes", "no"} :
          Prompt(session[u]) = "need_support" /\ report_support(u, answer)

\* the user goes on answering as long as a prompt of the flow is shown
FlowSpec == FlowInit /\ [][FlowNext]_vars /\ WF_vars(FlowNext)

-----------------------------------------------------------------------------
(* Report flows over the local midnight of the user *)

DateInit ==
    /\ InitStore(Codes)
    /\ notification_templates = DefaultTemplates
    /\ broadcast_log = <<>>
    /\ environ = Unset
    /\ conn = Connected
    /\ session = [u \in Users |-> Idle]
    /\ boot = MidnightBoot
    /\ now = MidnightBoot
    /\ tick = TickIdle
    /\ instances = 0
    /\ delivered = EmptyBag
    /\ refused = {}
    /\ saving = NotSaving
    /\ txn = NoTxn
    /\ erased = {}
    /\ last = [op |-> "init", user |-> 0]
    /\ call = [op |-> "none"]

DateNext ==
    \/ \E u \in Callers : menu_daily_report(u)
    \/ \E u \in Callers : report_edit(u)
    \/ \E u \in Callers : report_status(u, "clean")
    \/ \E u \in Callers : report_continue(u)
    \/ \E u \in Callers : report_craving(u, "low")
    \/ \E u \in Callers, answer \in {"yes", "no"} : report_support(u, answer)
    \/ advance_minute

DateSpec == DateInit /\ [][DateNext]_vars

-----------------------------------------------------------------------------
(* get_streak over sampled tables *)

\* report dates of the sampled rows; day 4 is never logged
StreakDates == {1, 2, 3, 5}

streak_call ==
    /\ call.op = "input"
    /\ call' = [op |-> "get_streak", user_id |-> call.user_id,
                addiction_code |-> call.addiction_code,
                streak |-> get_streak(daily_logs, call.user_id, call.addiction_code)]
    /\ UNCHANGED <<store, session, now, boot, environ, conn, tick, instances, delivered, refused,
                   saving, txn, erased, last>>

StreakInit ==
    /\ users = (1 :> [NewUserRow EXCEPT !.is_onboarded = 1]) @@ (2 :> Bystander)
    /\ user_addictions = {<<1, "alcohol">>, <<1, "nicotine">>, <<2, "alcohol">>}
    /\ \E logged \in SUBSET StreakDates :
          \E status \in [logged -> StatusInputs] :
             daily_logs = {[user_id |-> 1, date |-> d, addiction_code |-> "alcohol",
                            status |-> status[d], craving_level |-> NULL] : d \in logged}
                          \cup {[user_id |-> 1, date |-> 5, addiction_code |-> "nicotine",
                                 status |-> "relapse", craving_level |-> NULL],
                                [user_id |-> 2, date |-> 5, addiction_code |-> "alcohol",
                                 status |-> "relapse", craving_level |-> "low"]}
    /\ user_settings = {}
    /\ notifications_log = EmptyBag
    /\ session = [u \in Users |-> Idle]
    /\ boot = BootTime
    /\ now = BootTime
    /\ tick = TickIdle
    /\ instances = 0
    /\ delivered = EmptyBag
    /\ refused = {}
    /\ saving = NotSaving
    /\ txn = NoTxn
    /\ erased = {}
    /\ notification_templates = DefaultTemplates
    /\ broadcast_log = <<>>
    /\ environ = Unset
    /\ conn = Connected
    /\ last = [op |-> "init", user |-> 0]
    /\ call = [op |-> "input", user_id |-> 1, addiction_code |-> "alcohol"]

StreakNext == streak_call

StreakSpec == StreakInit /\ [][StreakNext]_vars

-----------------------------------------------------------------------------
(* Properties *)

Tracked(u) == {c \in Codes : <<u, c>> \in user_addictions}
RowsOn(u, date) == {r \in daily_logs : r.user_id = u /\ r.date = date}
Today(u) == (now + (IF u \in DOMAIN users /\ users[u].timezone = "Asia/Tokyo"
                    THEN 540 ELSE 60)) \div 1440
Acknowledged(s) == "pending_relapse" \in DOMAIN s.data /\ s.data["pending_relapse"] = FALSE
ReportOps == {"report_status", "report_continue", "report_craving", "report_support"}

\* C1: the notification log never holds two records with the same
\* (user, kind, local date), whatever the ticks and sends did.
C1_AtMostOneRecord ==
    \A r \in DOMAIN notifications_log : notifications_log[r] <= 1

\* a tick inside the tolerance window of user 1's reminder has just skipped
\* the kind because its record for today is in the log
C1_Witness ==
    /\ last.op = "tick_scan"
    /\ tick.pc = "scan" /\ tick.i = 1 /\ tick.k = 2
    /\ tick.users[1].user_id = 1
    /\ tick.users[1].reminder_time = <<"2", "1", ":", "0", "0">>
    /\ tick.minutes \in {1259, 1260, 1261}
    /\ CopiesIn([user_id |-> 1, notification_type |-> "reminder", date |-> tick.date],
                 notifications_log) = 1
    /\ BagCardinality(delivered) > 0

C3_ExactlyNRows ==
    \A u \in Callers :
        (/\ last.op = "report_support" /\ last.user = u
         /\ last.from = "answering_support" /\ last.started)
            => /\ Cardinality(RowsOn(u, Today(u))) = Cardinality(Tracked(u))
               /\ \A c \in Tracked(u) : \E r \in RowsOn(u, Today(u)) : r.addiction_code = c

\* C4: starting, answering a status, acknowledging, answering craving, editing
\* and cancelling leave every DailyLog row as it was.
C4_OnlySupportWrites ==
    [][last'.op \in {"menu_daily_report", "report_edit", "report_status",
                     "report_continue", "report_craving", "report_cancel"}
          => daily_logs' = daily_logs]_vars

\* the craving answer was given for a buffered report and nothing is stored
\* for today yet
C4_Witness ==
    /\ last.op = "report_craving"
    /\ session[1].state = "answering_support"
    /\ DOMAIN session[1].data["logs"] = {"alcohol", "nicotine"}
    /\ RowsOn(1, Today(1)) = {}

\* the behaviour before the current index was answered with relapse and the
\* acknowledgment moved past it
RelapseAcknowledged(s) ==
    /\ s.state = "answering_addiction"
    /\ Acknowledged(s)
    /\ s.data["current_index"] >= 1
    /\ s.data["addictions"][s.data["current_index"]] \in DOMAIN s.data["logs"]
    /\ s.data["logs"][s.data["addictions"][s.data["current_index"]]].status = "relapse"

\* C5 as stated: once the relapse at index i was acknowledged and the flow is
\* at index i+1, a further continue callback for it changes nothing.
C5_ContinueOnce ==
    [][\A u \in Callers :
          (/\ last'.op = "report_continue" /\ last'.user = u
           /\ RelapseAcknowledged(session[u]))
             => session'[u] = session[u]]_vars

\* C6 as stated: a tick sends only to a user whose row, as that tick read it,
\* has notifications enabled.
C6_OnlyEnabledUsers ==
    tick.pc = "send" => tick.users[tick.i].support_enabled = 1

\* C7: the tolerance test accepts exactly the target minute and its two
\* neighbours on the 1440-minute ring; seconds are dropped.
C7_DueWindow ==
    call.op = "check_due" =>
        /\ call.current = call.seconds \div 60
        /\ call.due <=> \E e \in {0 - 1, 0, 1} : (call.target + e + 1440) % 1440 = call.current
        /\ (call.seconds = 1260 * 60 + 59 /\ call.target = 1260) => call.due
        /\ (call.current = 1262 /\ call.target = 1260) => ~call.due
        /\ (call.current = 1439 /\ call.target = 0) => (call.diff = 1 /\ call.due)

\* 23:59:59 against the target 00:00
C7_Witness ==
    /\ call.op = "check_due"
    /\ call.seconds = 86399 /\ call.target = 0 /\ call.due

RowsOf(u) ==
    <<IF u \in DOMAIN users THEN {users[u]} ELSE {},
      {r \in user_addictions : r[1] = u},
      {r \in daily_logs : r.user_id = u},
      {r \in user_settings : r.user_id = u},
      {r \in DOMAIN notifications_log : r.user_id = u}>>

\* C8: the deletion leaves no row of the user in the five tables and leaves
\* the rows of every other user as they were.
C8_DeleteCascade ==
    [][\A u \in Users :
          (last'.op = "settings_delete_confirm" /\ last'.user = u)
             => /\ RowsOf(u)' = <<{}, {}, {}, {}, {}>>
                /\ \A v \in Users \ {u} : RowsOf(v)' = RowsOf(v)]_vars

\* user 1 had rows in all five tables and was deleted; user 2 still has its own
C8_Witness ==
    /\ last.op = "settings_delete_confirm" /\ last.user = 1
    /\ last.held = {"users", "user_addictions", "daily_logs", "user_settings",
                    "notifications_log"}
    /\ RowsOf(1) = <<{}, {}, {}, {}, {}>>
    /\ \A i \in 1..5 : RowsOf(2)[i] # {}

BelongsTo(op) ==
    CASE op = "report_status" -> "answering_addiction"
      [] op = "report_continue" -> "answering_addiction"
      [] op = "report_craving" -> "answering_craving"
      [] op = "report_support" -> "answering_support"

\* C9 as stated: a report callback that arrives in a state it does not belong
\* to clears the session and writes nothing.
C9_StaleCallbackResets ==
    [][\A u \in Callers :
          (/\ last'.op \in ReportOps /\ last'.user = u
           /\ session[u].state # BelongsTo(last'.op))
             => (session'[u] = Idle /\ store' = store)]_vars

TodayComplete(u) ==
    /\ Tracked(u) # {}
    /\ \A c \in Tracked(u) : \E r \in RowsOn(u, Today(u)) : r.addiction_code = c

FreshFlow(s) ==
    /\ s.state = "answering_addiction"
    /\ "current_index" \in DOMAIN s.data /\ s.data["current_index"] = 0
    /\ "logs" \in DOMAIN s.data /\ DOMAIN s.data["logs"] = {}

\* C10: with today's rows complete, the start action changes neither the
\* session nor the store, and a step that opens a fresh flow is the edit action.
C10_RefuseWhenLogged ==
    [][\A u \in Callers :
          TodayComplete(u) =>
             /\ (last'.op = "menu_daily_report" /\ last'.user = u)
                   => (session'[u] = session[u] /\ store' = store)
             /\ (FreshFlow(session'[u]) /\ session'[u] # session[u])
                   => last'.op = "report_edit"]_vars

\* the start action was refused: today's rows are complete and the user is idle
C10_Witness ==
    /\ last.op = "menu_daily_report" /\ last.user = 1
    /\ Tracked(1) = {"alcohol", "nicotine"}
    /\ TodayComplete(1)
    /\ session[1] = Idle

\* C11: at most one execution of scheduler_tick is in flight at any time; a fire
\* of the trigger that comes while one is running starts no second execution
C11_SingleFlight ==
    /\ instances <= 1
    /\ (instances = 0) <=> (tick.pc = "idle")
    /\ last.op = "tick_skip" => instances = 1

\* a fire of the trigger was suppressed while a send was awaited
C11_Witness ==
    /\ last.op = "tick_skip"
    /\ instances = 1
    /\ tick.pc = "send"

\* the key of the send that the tick awaits
TickKey == NotificationRow(TickUser.user_id, TickKind.type, tick.date)

\* C12: a send for (user, kind, local date) is attempted only after the tick
\* has inserted the notification record of that key
C12_RecordBeforeSend ==
    tick.pc = "send" => BagIn(TickKey, notifications_log)

\* C13: the existence check and the insert of the notification record are one
\* atomic store step: between the check and the insert no other operation
\* reaches the store
C13_AtomicCheckInsert ==
    [][(tick.pc \in {"send", "log"} /\ tick' = tick) => UNCHANGED store]_vars

\* C14: a send that meets a transient fault (rate limit or network error) is
\* retried exactly once in that tick
C14_RetryOnce ==
    (last.op = "tick_send" /\ last.outcome[1] \in TransientFaults)
        => Attempts(last.outcome) = 2

\* C15: after a send for (user, kind, local date) ended in a permanent fault, no
\* later send is attempted for that key
C15_NoResendAfterPermanent ==
    tick.pc = "send" => TickKey \notin refused

\* C16: when the send and its single retry both fail, the notification record of
\* the key exists afterwards
C16_RecordKeptOnFailure ==
    (last.op = "tick_send" /\ Attempts(last.outcome) = 2 /\ ~SendSucceeds(last.outcome))
        => BagIn(NotificationRow(last.user, last.type, last.date), notifications_log)

\* wall-clock minutes and date of user u's own zone at server minute t
OwnMinutes(u, t) == (t + ZoneOffset[users[u].timezone]) % MinutesPerDay
OwnDate(u, t) == (t + ZoneOffset[users[u].timezone]) \div MinutesPerDay
RecordsOf(u) == {r \in BagToSet(notifications_log) : r.user_id = u}

\* C17: of two users with one reminder time in zones nine hours apart, each is
\* sent the reminder by a tick at the user's own local reminder time, the
\* eastern user nine hours of server time before the other, and each then holds
\* exactly one reminder record, keyed by the user's own local date
C17_OwnLocalTime ==
    /\ (last.op = "tick_scan" /\ tick.pc = "send")
          => Abs(OwnMinutes(TickUser.user_id, now)
                   - _parse_hhmm(users[TickUser.user_id].reminder_time)) <= 1
    /\ (last.op = "tick_send" /\ SendSucceeds(last.outcome))
          => /\ last.user = 2 => now - boot < NineHours
             /\ last.user = 1 => now - boot >= NineHours
    /\ last.op = "tick_log"
          => /\ RecordsOf(last.user)
                   = {NotificationRow(last.user, "reminder", OwnDate(last.user, now))}
             /\ CopiesIn(NotificationRow(last.user, "reminder", OwnDate(last.user, now)),
                         notifications_log) = 1

\* both users were sent the reminder and hold their record; the server's own
\* date was still the day before when the eastern user's record was written
C17_Witness ==
    /\ last.op = "tick_log" /\ last.user = 1
    /\ users[1].reminder_time = <<"0", "5", ":", "0", "0">>
    /\ RecordsOf(1) = {NotificationRow(1, "reminder", OwnDate(1, now))}
    /\ RecordsOf(2) = {NotificationRow(2, "reminder", OwnDate(2, boot))}
    /\ OwnDate(2, boot) # OwnDate(1, boot)
    /\ BagCardinality(delivered) = 2

\* C18: the kinds computed for one user never share a clock time: with
\* frequency >= 2 the reminder2 slot is noon, or 18:00 when the base time is
\* noon, and its minute of day differs from the base's
C18_DistinctSlots ==
    (call.op = "_support_times" /\ _parse_hhmm(call.times[1].time) # ParseFailed)
        => /\ \A i, j \in 1..Len(call.times) :
                 i # j => _parse_hhmm(call.times[i].time) # _parse_hhmm(call.times[j].time)
           /\ call.frequency >= 2
                 => /\ Len(call.times) = 2
                    /\ call.times[2].type = "reminder2"
                    /\ _parse_hhmm(call.times[2].time)
                          = (IF _parse_hhmm(call.times[1].time) = 720 THEN 1080 ELSE 720)

CallKey == <<call.user_id, call.date, call.addiction_code>>

\* C19: daily_logs holds at most one row per (user, date, behaviour); after a
\* call the row of its key carries the status and craving level of that call and
\* the other rows are as before; a call repeated with the same arguments changes
\* nothing
C19_UpsertLastWriteWins ==
    [][call'.op = "upsert_daily_log"
          => /\ \A r1, r2 \in daily_logs' : LogKey(r1) = LogKey(r2) => r1 = r2
             /\ \E r \in daily_logs' :
                   /\ LogKey(r) = <<call'.user_id, call'.date, call'.addiction_code>>
                   /\ r.status = call'.status
                   /\ r.craving_level = call'.craving_level
             /\ {r \in daily_logs' : LogKey(r) # <<call'.user_id, call'.date,
                                                   call'.addiction_code>>}
                   = {r \in daily_logs : LogKey(r) # <<call'.user_id, call'.date,
                                                       call'.addiction_code>>}
             /\ call' = call => daily_logs' = daily_logs]_vars

\* a second call for the key of an existing row replaced its status and craving
\* level and left one row
C19_Witness ==
    /\ call.op = "upsert_daily_log"
    /\ CallKey = <<1, 0, "alcohol">>
    /\ call.status = "relapse" /\ call.craving_level = "low"
    /\ Cardinality({r \in daily_logs : LogKey(r) = CallKey}) = 1
    /\ Cardinality(daily_logs) >= 4

\* rows that the report_support in flight has committed
Written == saving.total - Len(saving.todo)

\* C20: persisting a completed report of N behaviours is atomic: a handler that
\* reads or deletes daily_logs while the completion is in flight, and a fault of
\* the store, finds none or all N rows of that completion written
C20_AllOrNothing ==
    /\ (saving.pc = "save" /\ last.op \in {"menu_daily_report", "settings_delete_confirm"})
          => Written \in {0, saving.total}
    /\ (last.op = "report_support_save" /\ last.outcome = "error")
          => last.written \in {0, last.total}

\* C21: delete_user_data is all-or-nothing: as long as no deletion of user 1 has
\* completed, the committed tables hold the rows user 1 had from the start, also
\* after a fault inside delete_user_data and after later commits of other
\* operations
C21_DeleteAllOrNothing ==
    1 \notin erased
       => /\ 1 \in DOMAIN Committed.users
          /\ <<1, "alcohol">> \in Committed.user_addictions
          /\ \E r \in Committed.daily_logs : r.user_id = 1

\* C22: an onboarded user has at least one tracked behaviour in every state of
\* the store
C22_OnboardedTracksSomething ==
    \A u \in DOMAIN users : users[u].is_onboarded = 1 => Tracked(u) # {}

\* the codes of a selection list
Selection(selected) == {selected[i] : i \in 1..Len(selected)}

C23_WitnessRejected ==
    /\ last.op = "addiction_done" /\ last.user = 1
    /\ last.selected = <<>>
    /\ Tracked(1) = {"alcohol", "nicotine"}

\* C24: once a user's onboarded flag is set it stays set in every later state
\* until settings_delete_confirm deletes that user's data
C24_OnboardedSticks ==
    [][\A u \in DOMAIN users :
          users[u].is_onboarded = 1
             => \/ u \in DOMAIN users' /\ users'[u].is_onboarded = 1
                \/ last'.op = "settings_delete_confirm" /\ last'.user = u]_vars

\* an onboarded user went through /start and the handlers that store a
\* selection and a reminder time again, and is still onboarded
C24_Witness ==
    /\ last.op = "addiction_done" /\ last.user = 1
    /\ last.selected # <<>>
    /\ 1 \in DOMAIN users
    /\ users[1].is_onboarded = 1
    /\ session[1].state = "selecting_time"

\* the rows of the key that get_streak was called for
StreakRows == {r \in daily_logs : r.user_id = call.user_id
                                  /\ r.addiction_code = call.addiction_code}

\* C25: get_streak is the number of rows of the behaviour that are clean and
\* have only clean rows of the same or a later date: the leading clean rows in
\* date-descending order, whatever the gaps between the dates
C25_StreakLeadingClean ==
    call.op = "get_streak"
       => call.streak
             = Cardinality({r \in StreakRows :
                               \A q \in StreakRows : q.date >= r.date => q.status = "clean"})

\* {day 5: clean, day 2: relapse, day 1: clean} gives 1
C25_Witness ==
    /\ call.op = "get_streak"
    /\ {<<r.date, r.status>> : r \in StreakRows}
          = {<<5, "clean">>, <<2, "relapse">>, <<1, "clean">>}
    /\ call.streak = 1

\* the zone whose wall clock user u is to be served in: the stored one if the
\* zone database knows it, else the process-wide default
ServedOffset(u) ==
    IF users[u].timezone \in DOMAIN ZoneOffset THEN ZoneOffset[users[u].timezone]
    ELSE ZoneOffset[DEFAULT_TIMEZONE]

\* C26: for every stored timezone identifier the local time is resolved: the
\* tick reads minute and date, and menu_daily_report the report date, in the
\* stored zone, or in the default zone when the identifier names no zone
C26_ZoneFallback ==
    /\ (last.op = "tick_scan" /\ tick.pc \in {"scan", "send"} /\ tick.i = 1
           /\ (tick.k >= 2 \/ tick.pc = "send"))
          => /\ tick.minutes = (now + ServedOffset(1)) % MinutesPerDay
             /\ tick.date = (now + ServedOffset(1)) \div MinutesPerDay
    /\ (last.op = "menu_daily_report" /\ session[1].state = "answering_addiction")
          => session[1].data["report_date"] = (now + ServedOffset(1)) \div MinutesPerDay

\* a row whose timezone names no zone was served in the default zone by the tick
C26_Witness ==
    /\ users[1].timezone = "Mars/Phobos"
    /\ last.op = "tick_scan" /\ tick.pc = "send" /\ tick.i = 1
    /\ tick.minutes = (now + ZoneOffset[DEFAULT_TIMEZONE]) % MinutesPerDay

\* a row whose timezone names no zone opened a report dated in the default zone
C26_WitnessReport ==
    /\ users[1].timezone = "Mars/Phobos"
    /\ last.op = "menu_daily_report" /\ session[1].state = "answering_addiction"
    /\ session[1].data["report_date"] = (now + ZoneOffset[DEFAULT_TIMEZONE]) \div MinutesPerDay

\* the tick has just passed over the reminder of a user whose stored reminder
\* time is no HH:MM text, in a minute in which the default reminder time is due
\* and no reminder of that day is logged
SkippedAtDefaultTime ==
    /\ last.op = "tick_scan" /\ tick.pc = "scan"
    /\ tick.i <= Len(tick.users) /\ tick.k = 2
    /\ TickUser.reminder_time # <<>>
    /\ _parse_hhmm(TickUser.reminder_time) = ParseFailed
    /\ IsDue(tick.minutes, _parse_hhmm(DEFAULT_REMINDER_TIME))
    /\ ~was_notification_sent(TickUser.user_id, "reminder", tick.date)

\* C27, first half: a stored reminder time that is no HH:MM text is evaluated as
\* the default reminder time, so the tick never skips that user's due reminder
C27_TickUsesDefaultTime == ~SkippedAtDefaultTime

\* C27, second half: the time-selection callbacks store no text that is not HH:MM
C27_StoredTimesValid ==
    \A u \in DOMAIN users :
       users[u].reminder_time = <<>> \/ _parse_hhmm(users[u].reminder_time) # ParseFailed

\* C27: an invalid stored reminder time is evaluated against the default
\* reminder time instead of being skipped, and the time-selection callbacks
\* never store an invalid reminder time
C27_InvalidReminderTime == C27_TickUsesDefaultTime /\ C27_StoredTimesValid

AdminOperations ==
    {"cmd_admin", "menu_admin", "admin_stats", "admin_export", "admin_broadcast",
     "admin_broadcast_text", "admin_broadcast_confirm", "admin_templates",
     "admin_template_toggle", "admin_template_page", "admin_template_add",
     "admin_template_text", "admin_scheduler"}

AdminStateNames ==
    {"AdminStates:main", "AdminStates:broadcast_text", "AdminStates:broadcast_confirm",
     "AdminStates:viewing_templates", "AdminStates:adding_template"}

\* C28: an admin operation run for a user whose id is not the privileged id
\* changes no table of the store and leaves that user's session as it was
C28_NonAdminRejected ==
    [][\A u \in DOMAIN session :
          (last'.op \in AdminOperations /\ last'.user = u /\ u # ADMIN_USER_ID)
             => (store' = store /\ session'[u] = session[u])]_vars

\* a user who is not the privileged one asked for a template toggle after the
\* privileged one had changed the templates, and the tables stayed as they were
C28_Witness ==
    /\ last.op = "admin_template_toggle"
    /\ last.user # ADMIN_USER_ID
    /\ session[last.user] = Idle
    /\ notification_templates # DefaultTemplates

\* C30: with ADMIN_USER_ID absent from the environment no user id passes
\* is_admin, and no session is in a state of the admin surface
C30_UnsetMeansNoAdmin ==
    ("ADMIN_USER_ID" \notin DOMAIN environ)
       => \A u \in DOMAIN session :
             /\ ~is_admin(u)
             /\ session[u].state \notin AdminStateNames

\* C30, on the sessions only: with ADMIN_USER_ID absent no user ever opens the
\* admin surface
C30_UnsetNeverOpens ==
    ("ADMIN_USER_ID" \notin DOMAIN environ)
       => \A u \in DOMAIN session : session[u].state \notin AdminStateNames

\* C29: the connection is closed only when no run of scheduler_tick is in
\* flight: a run that was in flight at the shutdown has run to completion first
C29_TickCompletesBeforeClose == (conn = NULL) => (tick.pc = "idle")

\* C29, the run that has sent a reminder and has log_notification left to call
C29_NotClosedBeforeLog == ~(conn = NULL /\ tick.pc = "log")

\* the flow of session s waits for the acknowledgment of a relapse answer
AckPending(s) ==
    /\ s.state = "answering_addiction"
    /\ Get(s.data, "pending_relapse", FALSE) = TRUE

\* C31, the status callback: while the acknowledgment is pending a status
\* callback records no status and does not advance the index
C31_StatusBlocked ==
    [][\A u \in Callers :
          (AckPending(session[u]) /\ last'.op = "report_status" /\ last'.user = u)
             => session'[u] = session[u]]_vars

\* C31, the way out: a flow whose acknowledgment is pending goes on to a further
\* question only through the continue callback
C31_OnlyContinueLeaves ==
    [][\A u \in Callers :
          (/\ AckPending(session[u])
           /\ ~AckPending(session'[u])
           /\ session'[u].state \in {"answering_addiction", "answering_craving"}
           /\ last'.op \notin {"menu_daily_report", "report_edit"})
             => last'.op = "report_continue"]_vars

\* C31: after a relapse answer the flow is blocked until the acknowledgment: a
\* status callback changes nothing and only the continue callback moves on
C31_BlockedUntilAck ==
    [][\A u \in Callers :
          AckPending(session[u]) =>
             /\ (last'.op = "report_status" /\ last'.user = u)
                   => session'[u] = session[u]
             /\ (/\ ~AckPending(session'[u])
                 /\ session'[u].state \in {"answering_addiction", "answering_craving"}
                 /\ last'.op \notin {"menu_daily_report", "report_edit"})
                   => last'.op = "report_continue"]_vars

\* the behaviour the flow of session s asks about, where there is one
HasCurrent(s) ==
    /\ {"addictions", "current_index", "logs"} \subseteq DOMAIN s.data
    /\ s.data["current_index"] < Len(s.data["addictions"])
CurrentCode(s) == s.data["addictions"][s.data["current_index"] + 1]

\* report_status has just run for u on a flow that had a current behaviour, and
\* the answer it buffered for that behaviour is one of statuses
StatusStep(u, statuses) ==
    /\ last'.op = "report_status" /\ last'.user = u
    /\ HasCurrent(session[u])
    /\ session'[u].data["logs"][CurrentCode(session[u])].status \in statuses

\* C32: a relapse answer at index i buffers relapse for that behaviour, leaves
\* the index at i and the buffered answers of the other behaviours as they were
C32_RelapseKeepsIndex ==
    [][\A u \in Callers :
          StatusStep(u, {"relapse"}) =>
             /\ session'[u].data["current_index"] = session[u].data["current_index"]
             /\ session'[u].data["addictions"] = session[u].data["addictions"]
             /\ session'[u].state = session[u].state
             /\ session'[u].data["pending_relapse"] = TRUE
             /\ DOMAIN session'[u].data["logs"]
                   = DOMAIN session[u].data["logs"] \cup {CurrentCode(session[u])}
             /\ \A c \in DOMAIN session[u].data["logs"] \ {CurrentCode(session[u])} :
                   session'[u].data["logs"][c] = session[u].data["logs"][c]]_vars

\* the second of two behaviours was answered with relapse after the first was
\* answered with clean: the index is still 1 and the first answer is kept
C32_Witness ==
    /\ last.op = "report_status"
    /\ AckPending(session[1])
    /\ session[1].data["current_index"] = 1
    /\ Len(session[1].data["addictions"]) = 2
    /\ session[1].data["logs"][session[1].data["addictions"][1]].status = "clean"
    /\ session[1].data["logs"][session[1].data["addictions"][2]].status = "relapse"

\* C33: a clean or unclear answer at index i of N behaviours, given while the
\* flow collects statuses, buffers the status for behaviour i and goes to index
\* i+1 when i+1 < N, else to the craving question, with no acknowledgment pending
C33_CleanAdvances ==
    [][\A u \in Callers :
          (/\ StatusStep(u, {"clean", "unclear"})
           /\ session[u].state = "answering_addiction"
           /\ ~AckPending(session[u]))
             => LET i == session[u].data["current_index"]
                    N == Len(session[u].data["addictions"])
                IN /\ DOMAIN session'[u].data["logs"]
                         = DOMAIN session[u].data["logs"] \cup {CurrentCode(session[u])}
                   /\ \A c \in DOMAIN session[u].data["logs"] \ {CurrentCode(session[u])} :
                         session'[u].data["logs"][c] = session[u].data["logs"][c]
                   /\ IF i + 1 < N
                      THEN /\ session'[u].state = "answering_addiction"
                           /\ session'[u].data["current_index"] = i + 1
                      ELSE /\ session'[u].state = "answering_craving"
                           /\ session'[u].data["current_index"] = i
                   /\ ~AckPending(session'[u])]_vars

\* the first of two behaviours was answered with unclear: the flow asks about
\* the second one and waits for no acknowledgment
C33_Witness ==
    /\ last.op = "report_status"
    /\ session[1].state = "answering_addiction"
    /\ ~AckPending(session[1])
    /\ session[1].data["current_index"] = 1
    /\ Len(session[1].data["addictions"]) = 2
    /\ DOMAIN session[1].data["logs"] = {session[1].data["addictions"][1]}
    /\ session[1].data["logs"][session[1].data["addictions"][1]].status = "unclear"

\* the craving level report_support stores for buffered behaviour c
BufferedCraving(s, c) == Get(s.data["logs"][c], "craving_level", NULL)

\* C34, the craving answer: every buffered behaviour gets one and the same
\* craving level and the flow goes to the support question
C34_CravingUniform ==
    [][\A u \in Callers :
          (last'.op = "report_craving" /\ last'.user = u)
             => /\ session'[u].state = "answering_support"
                /\ DOMAIN session'[u].data["logs"] = DOMAIN Get(session[u].data, "logs", EmptyData)
                /\ \A c, d \in DOMAIN session'[u].data["logs"] :
                      /\ "craving_level" \in DOMAIN session'[u].data["logs"][c]
                      /\ BufferedCraving(session'[u], c) = BufferedCraving(session'[u], d)]_vars

\* C34, the completion: the rows one completion stores carry one craving level
C34_RowsUniform ==
    [][\A u \in Callers :
          (last'.op = "report_support" /\ last'.user = u /\ "logs" \in DOMAIN session[u].data)
             => \A c, d \in DOMAIN session[u].data["logs"] :
                   BufferedCraving(session[u], c) = BufferedCraving(session[u], d)]_vars

\* C34: the craving answer sets one craving level on every behaviour answered
\* in the run and goes to the support question, and all rows stored by one
\* completion carry the same craving level
C34_OneCravingPerCompletion ==
    [][\A u \in Callers :
          /\ (last'.op = "report_craving" /\ last'.user = u)
                => /\ session'[u].state = "answering_support"
                   /\ \A c, d \in DOMAIN session'[u].data["logs"] :
                         BufferedCraving(session'[u], c) = BufferedCraving(session'[u], d)
          /\ (last'.op = "report_support" /\ last'.user = u
                 /\ "logs" \in DOMAIN session[u].data)
                => \A c, d \in DOMAIN session[u].data["logs"] :
                      BufferedCraving(session[u], c) = BufferedCraving(session[u], d)]_vars

\* the rows of table tbl after the buffer of session s was stored for user u
StoredBuffer(tbl, u, s) ==
    LET logs == Get(s.data, "logs", EmptyData)
    IN IF DOMAIN logs = {} THEN tbl
       ELSE (tbl \ {r \in tbl : /\ r.user_id = u
                                /\ r.date = s.data["report_date"]
                                /\ r.addiction_code \in DOMAIN logs})
            \cup {[user_id |-> u, date |-> s.data["report_date"],
                   addiction_code |-> c, status |-> Get(logs[c], "status", NULL),
                   craving_level |-> Get(logs[c], "craving_level", NULL)] : c \in DOMAIN logs}

\* C35: the tables and the session a report completion leaves are determined
\* by the state before it alone: with the answer yes (emergency screen) and
\* with the answer no (saved screen) the same rows are stored and the session
\* is Idle with the buffer gone
C35_SupportAnswerOnlyRoutes ==
    [][\A u \in Callers :
          (last'.op = "report_support" /\ last'.user = u)
             => /\ last'.screen \in {"emergency_help", "report_saved"}
                /\ daily_logs' = StoredBuffer(daily_logs, u, session[u])
                /\ session'[u] = Idle
                /\ UNCHANGED <<users, user_addictions, user_settings, notifications_log,
                               notification_templates, broadcast_log>>]_vars

\* a completion answered with yes stored the buffered row of today
C35_Witness ==
    /\ last.op = "report_support" /\ last.user = 1
    /\ last.screen = "emergency_help"
    /\ last.from = "answering_support"
    /\ session[1] = Idle
    /\ \E r \in daily_logs : r.user_id = 1 /\ r.date = 1 /\ r.status = "relapse"

\* deliveries of kind to user u that the outbound channel accepted
DeliveriesOf(u, kind) ==
    LET keys == {r \in DOMAIN delivered : r.user_id = u /\ r.notification_type = kind}
        RECURSIVE Total(_)
        Total(S) == IF S = {} THEN 0
                    ELSE LET r == CHOOSE x \in S : TRUE
                         IN delivered[r] + Total(S \ {r})
    IN Total(keys)

\* C36: over the minutes of one tolerance window, also one that spans the local
\* midnight (targets 23:59, 00:00, 00:01), the reminder is sent at most once
C36_OncePerWindow == DeliveriesOf(1, "reminder") <= 1

\* no completion and no tick is in flight
NothingInFlight == saving = NotSaving /\ tick = TickIdle

\* C37, daily_logs: after the deletion of user 1 and the end of the completion
\* that was in flight, daily_logs holds no row of user 1
C37_NoLogAfterDelete ==
    (1 \in erased /\ NothingInFlight) => \A r \in daily_logs : r.user_id # 1

\* C37, notifications_log: after the deletion of user 1 and the end of the tick
\* that had read user 1, notifications_log holds no record of user 1
C37_NoRecordAfterDelete ==
    (1 \in erased /\ NothingInFlight) => \A r \in DOMAIN notifications_log : r.user_id # 1

\* C37: once delete_user_data for user 1 has committed and the completion and
\* the tick that were in flight have finished, neither daily_logs nor
\* notifications_log holds a row of user 1
C37_DeleteWinsRace ==
    (1 \in erased /\ NothingInFlight)
       => /\ \A r \in daily_logs : r.user_id # 1
          /\ \A r \in DOMAIN notifications_log : r.user_id # 1

InFlow(s) == s.state \in {"answering_addiction", "answering_craving", "answering_support"}

\* C38: a flow over N >= 1 behaviours whose every prompt is answered ends in
\* Idle; each status answer is the first one for its behaviour, so the answers
\* given are as many as the buffer holds, and the completion finds N of them;
\* until then the index never decreases and never exceeds N-1
C38_FlowTerminates ==
    /\ [][\A u \in Callers :
            /\ (last'.op = "report_status" /\ last'.user = u)
                  => /\ HasCurrent(session[u])
                     /\ CurrentCode(session[u]) \notin DOMAIN session[u].data["logs"]
                     /\ Cardinality(DOMAIN session'[u].data["logs"])
                           = Cardinality(DOMAIN session[u].data["logs"]) + 1
            /\ (InFlow(session[u]) /\ InFlow(session'[u]))
                  => /\ session'[u].data["current_index"] >= session[u].data["current_index"]
                     /\ session'[u].data["current_index"]
                           <= Len(session'[u].data["addictions"]) - 1
            /\ (last'.op = "report_support" /\ last'.user = u)
                  => /\ Cardinality(DOMAIN session[u].data["logs"])
                           = Len(session[u].data["addictions"])
                     /\ Len(session[u].data["addictions"]) >= 1
                     /\ session'[u] = Idle]_vars
    /\ \A u \in Callers : InFlow(session[u]) ~> (session[u] = Idle)

\* a flow over two behaviours, one answered with relapse, was completed: both
\* rows of today are stored and the session is Idle
C38_Witness ==
    /\ last.op = "report_support" /\ last.user = 1
    /\ session[1] = Idle
    /\ Cardinality({r \in daily_logs : r.user_id = 1 /\ r.date = 1}) = 2
    /\ \E r \in daily_logs : r.user_id = 1 /\ r.date = 1 /\ r.status = "relapse"

\* the kind the tick is at is due for its user now and has no record
DueUnrecorded ==
    /\ tick.pc = "scan" /\ tick.i <= Len(tick.users)
    /\ SupportEnabled(TickUser.support_enabled)
    /\ tick.k <= Len(TickTimes)
    /\ _parse_hhmm(TickKind.time) # ParseFailed
    /\ LET local == LocalMinutes(IF TickUser.timezone = "" THEN DEFAULT_TIMEZONE
                                 ELSE TickUser.timezone, now)
       IN /\ IsDue(local % MinutesPerDay, _parse_hhmm(TickKind.time))
          /\ ~was_notification_sent(TickUser.user_id, TickKind.type, local \div MinutesPerDay)

\* C39: a send that ends in a fault, whichever it is, does not end the tick: the
\* tick goes on with the next kind of the same list, it ends only past the end
\* of its user list, it passes over no user, and a kind that is due and
\* unrecorded when the tick comes to it is sent
C39_FaultDoesNotEndTick ==
    [][/\ (last'.op = "tick_send" /\ ~SendSucceeds(last'.outcome))
             => /\ tick'.pc = "scan"
                /\ tick'.users = tick.users
                /\ tick'.i = tick.i /\ tick'.k = tick.k + 1
                /\ instances' = instances
       /\ (tick.pc # "idle" /\ tick'.pc = "idle") => tick.i > Len(tick.users)
       /\ (tick.pc # "idle" /\ tick'.pc # "idle")
             => (tick'.users = tick.users /\ tick'.i \in {tick.i, tick.i + 1})
       /\ (DueUnrecorded /\ last'.op = "tick_scan")
             => (tick'.pc = "send" /\ tick'.i = tick.i /\ tick'.k = tick.k)]_vars

\* the send to user 1 was refused, nothing was delivered and user 1 has no
\* record of today; a tick has come to user 2, the next in the list, and is
\* about to send
C39_Witness ==
    /\ last.op = "tick_scan"
    /\ tick.pc = "send" /\ tick.i = 2 /\ tick.users[1].user_id = 1
    /\ NotificationRow(1, "reminder", 1) \in refused
    /\ delivered = EmptyBag
    /\ ~was_notification_sent(1, "reminder", 1)
    /\ tick.users[2].user_id = 2 /\ tick.date = 2

\* the report date a session holds; read only where the session holds one
ReportDate(s) == s.data["report_date"]

\* the step wrote the report date of user u's session: it holds one now that
\* it did not hold, or that differs from the one it held
ReportDateWritten(u) ==
    /\ "report_date" \in DOMAIN session'[u].data
    /\ \/ "report_date" \notin DOMAIN session[u].data
       \/ ReportDate(session'[u]) # ReportDate(session[u])

\* C40: the report date of a session is written only when a flow is started,
\* as the user's local date of that moment; every row a completion stores
\* carries that date, whatever the local date is at the support answer, and rows
\* under other dates are left as they were
C40_RowsCarryStartDate ==
    [][\A u \in Callers :
          /\ ReportDateWritten(u)
                => /\ last'.op \in {"menu_daily_report", "report_edit"}
                   /\ ReportDate(session'[u]) = get_user_date(u)
          /\ (last'.op = "report_support" /\ last'.user = u
                 /\ Get(session[u].data, "logs", EmptyData) # EmptyData
                 /\ "report_date" \in DOMAIN session[u].data)
                => /\ \A r \in daily_logs' \ daily_logs : r.date = ReportDate(session[u])
                   /\ \A c \in DOMAIN session[u].data["logs"] :
                         \E r \in daily_logs' :
                            /\ r.user_id = u /\ r.addiction_code = c
                            /\ r.date = ReportDate(session[u])
                   /\ {r \in daily_logs' : r.date # ReportDate(session[u])}
                         = {r \in daily_logs : r.date # ReportDate(session[u])}]_vars

\* a flow started on day 1 was completed after the local midnight: its rows are
\* stored under day 1 and no row of user 1 is stored under day 2
C40_Witness ==
    /\ last.op = "report_support" /\ last.user = 1
    /\ get_user_date(1) = 2
    /\ Cardinality({r \in daily_logs : r.user_id = 1 /\ r.date = 1}) = 2
    /\ {r \in daily_logs : r.user_id = 1 /\ r.date = 2} = {}

====
